---- MODULE Spec2Model ----
(***************************************************************************)
(* PNG metadata codec of src/index.tsx: the checksum table and crc32, the   *)
(* tEXt chunk writer writePngMetadata and the reader extractPngMetadata,    *)
(* modelled byte for byte.  A byte buffer is a sequence over 0..255 (index  *)
(* i of the code is index i+1 here), a JavaScript string is a sequence of   *)
(* UTF-16 code units, and a number produced by a bitwise operator is the    *)
(* signed 32-bit integer JavaScript produces.  The module-level array       *)
(* crcTable is part of the state: crc32 reads it on every call.             *)
(***************************************************************************)
EXTENDS Integers, Sequences, FiniteSets, TLC

VARIABLES png, op, encIn, encKey, encVal, encRes, decRes, nEnc,
          crcTable, crcIn, crcOut, crcLog, calls,
          walk, retry, lastAnalysisData, popLog, loadRes, view

\* the state of the codec and of its callers
codecVars == <<png, op, encIn, encKey, encVal, encRes, decRes, nEnc,
               crcTable, crcIn, crcOut, crcLog, calls>>
\* the state of the chunk walks taken step by step, of the backend call with
\* retry, and of the analysis data, and the array view writePngMetadata was
\* called on
appVars == <<walk, retry, lastAnalysisData, popLog, loadRes, view>>

vars == <<png, op, encIn, encKey, encVal, encRes, decRes, nEnc,
          crcTable, crcIn, crcOut, crcLog, calls,
          walk, retry, lastAnalysisData, popLog, loadRes, view>>

(***************************************************************************)
(* Bounds of the model.                                                     *)
(***************************************************************************)
\* chunks of a generated base image, after the signature
MaxChunks == 2
\* successive writePngMetadata calls on one image
MaxEncodes == 1
\* successive crc32 calls
MaxCrcCalls == 2
\* length of the byte sequences over CrcAlphabet given to crc32
MaxCrcLen == 3
\* writePngMetadata calls stacked on one base image
MaxStack == 2
\* populateBananaData calls in a behaviour
MaxPopulates == 2

(***************************************************************************)
(* JavaScript 32-bit integer operators.  x ^ y, x & y and x >>> n convert   *)
(* their operands to 32-bit integers and work on the bit patterns.  A       *)
(* 32-bit pattern is held as its four bytes, most significant first (a      *)
(* word); Int32Of is the signed number that ^ and & give for a pattern.     *)
(***************************************************************************)
RECURSIVE XorBits(_, _, _)
XorBits(a, b, n) ==
    IF n = 0 THEN 0
    ELSE (IF (a % 2) = (b % 2) THEN 0 ELSE 1) + 2 * XorBits(a \div 2, b \div 2, n - 1)

\* x ^ y for the byte pairs lo..hi of the table below
RECURSIVE XorRange(_, _)
XorRange(lo, hi) ==
    IF lo = hi THEN <<XorBits(lo \div 256, lo % 256, 8)>>
    ELSE LET mid == (lo + hi) \div 2 IN XorRange(lo, mid) \o XorRange(mid + 1, hi)

\* x ^ y on bytes, tabulated as a sequence: entry 256 * x + y + 1
XorTable == XorRange(0, 65535)

\* x ^ y on bytes
XorByte(a, b) == XorTable[256 * a + b + 1]

\* the word of the number x, -2^31 <= x < 2^31 (two's complement when
\* x < 0): also the bytes DataView.setUint32(0, x, false) stores
Uint32Bytes(x) ==
    LET x1 == x \div 256
        x2 == x1 \div 256
        x3 == x2 \div 256
    IN  <<x3 % 256, x2 % 256, x1 % 256, x % 256>>

\* the signed number with the 32-bit pattern w
Int32Of(w) ==
    ((IF w[1] >= 128 THEN w[1] - 256 ELSE w[1]) * 16777216) + w[2] * 65536 + w[3] * 256 + w[4]

\* x ^ y, on words
BitXor(x, y) ==
    <<XorByte(x[1], y[1]), XorByte(x[2], y[2]), XorByte(x[3], y[3]), XorByte(x[4], y[4])>>

\* x >>> 1, on words
Ushr1(x) ==
    <<x[1] \div 2, (x[1] % 2) * 128 + (x[2] \div 2),
      (x[2] % 2) * 128 + (x[3] \div 2), (x[3] % 2) * 128 + (x[4] \div 2)>>

\* x >>> 8, on words
Ushr8(x) == <<0, x[1], x[2], x[3]>>

\* x & 0xff, a number in 0..255
AndFF(x) == x[4]

\* x & 1, 0 or 1
And1(x) == x[4] % 2

(***************************************************************************)
(* Checksum table and crc32 (src/index.tsx 394-410).                        *)
(***************************************************************************)
\* 0x82f63b78, the polynomial of CRC-32C, in place of 0xedb88320
CrcPoly_Castagnoli == <<130, 246, 59, 120>>
\* 0xedb88320
CrcPoly == <<237, 184, 131, 32>>
\* 0xffffffff
CrcInit == <<255, 255, 255, 255>>

\* the inner loop over k, from c after k steps
RECURSIVE crcTableEntry(_, _)
crcTableEntry(c, k) ==
    IF k = 8 THEN c
    ELSE crcTableEntry(IF And1(c) = 1 THEN BitXor(CrcPoly, Ushr1(c)) ELSE Ushr1(c), k + 1)

\* the entries lo..hi of the table
RECURSIVE crcTableRange(_, _)
crcTableRange(lo, hi) ==
    IF lo = hi THEN <<crcTableEntry(Uint32Bytes(lo), 0)>>
    ELSE LET mid == (lo + hi) \div 2
         IN  crcTableRange(lo, mid) \o crcTableRange(mid + 1, hi)

\* the module-level array crcTable is the variable of that name, a sequence
\* of words: crcTable[n] of the code is entry n + 1.  This is its content
\* after the loop over n, which runs once when the module is loaded
crcTableLoaded == crcTableRange(0, 255)

\* the loop over i, from register crc at index i (0-based); each step is
\* evaluated before the next is taken
RECURSIVE crc32Loop(_, _, _)
crc32Loop(buf, i, crc) ==
    IF ~(i < Len(buf)) THEN crc
    ELSE CHOOSE r \in { crc32Loop(buf, i + 1, c) :
                          c \in { BitXor(crcTable[AndFF(BitXor(crc, Uint32Bytes(buf[i + 1]))) + 1],
                                         Ushr8(crc)) } } : TRUE

\* crc32 with the register kept from the call before: it starts from the
\* complement of the last result and not from 0xffffffff
crc32_KeepsRegister(buf) ==
    Int32Of(BitXor(crc32Loop(buf, 0, BitXor(Uint32Bytes(crcOut), CrcInit)), CrcInit))

\* the number returned: crc ^ 0xffffffff is a signed 32-bit integer
crc32(buf) == Int32Of(BitXor(crc32Loop(buf, 0, CrcInit), CrcInit))

(***************************************************************************)
(* TextEncoder.encode and TextDecoder.decode (UTF-8, WHATWG Encoding).      *)
(***************************************************************************)
IsHighSurrogate(c) == c >= 55296 /\ c <= 56319
IsLowSurrogate(c) == c >= 56320 /\ c <= 57343

\* UTF-8 bytes of one code point
Utf8OfCodePoint(cp) ==
    IF cp < 128 THEN <<cp>>
    ELSE IF cp < 2048 THEN <<192 + (cp \div 64), 128 + (cp % 64)>>
    ELSE IF cp < 65536 THEN
        <<224 + (cp \div 4096), 128 + ((cp \div 64) % 64), 128 + (cp % 64)>>
    ELSE <<240 + (cp \div 262144), 128 + ((cp \div 4096) % 64),
           128 + ((cp \div 64) % 64), 128 + (cp % 64)>>

\* new TextEncoder().encode(s): a surrogate pair is one code point, a lone
\* surrogate is encoded as U+FFFD
RECURSIVE TextEncode(_)
TextEncode(s) ==
    IF s = <<>> THEN <<>>
    ELSE LET c == Head(s) IN
         IF IsHighSurrogate(c) /\ Len(s) >= 2 /\ IsLowSurrogate(s[2])
         THEN Utf8OfCodePoint(65536 + (c - 55296) * 1024 + (s[2] - 56320))
                  \o TextEncode(Tail(Tail(s)))
         ELSE IF IsHighSurrogate(c) \/ IsLowSurrogate(c)
         THEN <<239, 191, 189>> \o TextEncode(Tail(s))
         ELSE Utf8OfCodePoint(c) \o TextEncode(Tail(s))

\* UTF-16 code units of one code point
Utf16OfCodePoint(cp) ==
    IF cp < 65536 THEN <<cp>>
    ELSE <<55296 + ((cp - 65536) \div 1024), 56320 + ((cp - 65536) % 1024)>>

\* the UTF-8 decoder's handler, from byte index i (1-based) with the code
\* point cp under construction, need bytes needed of which seen are seen,
\* and the bounds lo..hi of the next continuation byte
RECURSIVE Utf8Decode(_, _, _, _, _, _, _)
Utf8Decode(b, i, cp, need, seen, lo, hi) ==
    IF i > Len(b) THEN (IF need # 0 THEN <<65533>> ELSE <<>>)
    ELSE LET byte == b[i] IN
         IF need = 0 THEN
            IF byte <= 127 THEN <<byte>> \o Utf8Decode(b, i + 1, 0, 0, 0, 128, 191)
            ELSE IF byte >= 194 /\ byte <= 223
                 THEN Utf8Decode(b, i + 1, byte % 32, 1, 0, 128, 191)
            ELSE IF byte >= 224 /\ byte <= 239
                 THEN Utf8Decode(b, i + 1, byte % 16, 2, 0,
                                 IF byte = 224 THEN 160 ELSE 128,
                                 IF byte = 237 THEN 159 ELSE 191)
            ELSE IF byte >= 240 /\ byte <= 244
                 THEN Utf8Decode(b, i + 1, byte % 8, 3, 0,
                                 IF byte = 240 THEN 144 ELSE 128,
                                 IF byte = 244 THEN 143 ELSE 191)
            ELSE <<65533>> \o Utf8Decode(b, i + 1, 0, 0, 0, 128, 191)
         ELSE IF byte < lo \/ byte > hi
              THEN <<65533>> \o Utf8Decode(b, i, 0, 0, 0, 128, 191)
         ELSE IF seen + 1 = need
              THEN Utf16OfCodePoint(cp * 64 + (byte % 64))
                       \o Utf8Decode(b, i + 1, 0, 0, 0, 128, 191)
         ELSE Utf8Decode(b, i + 1, cp * 64 + (byte % 64), need, seen + 1, 128, 191)

\* new TextDecoder().decode(b): ignoreBOM is false, so a leading byte order
\* mark EF BB BF is consumed and not part of the result
TextDecode(b) ==
    IF Len(b) >= 3 /\ b[1] = 239 /\ b[2] = 187 /\ b[3] = 191
    THEN Utf8Decode(b, 4, 0, 0, 0, 128, 191)
    ELSE Utf8Decode(b, 1, 0, 0, 0, 128, 191)

(***************************************************************************)
(* Typed arrays and DataView.  A Uint8Array is a view [buffer, byteOffset,  *)
(* length] of an ArrayBuffer; an ArrayBuffer is its byte sequence.          *)
(***************************************************************************)
Min(a, b) == IF a < b THEN a ELSE b

\* new Uint8Array(buffer)
Uint8Array(buffer) == [buffer |-> buffer, byteOffset |-> 0, length |-> Len(buffer)]

\* the bytes a view shows
Bytes(a) == SubSeq(a.buffer, a.byteOffset + 1, a.byteOffset + a.length)

\* a[i] for i >= 0: the byte, or undefined (here -1) past the end
At(a, i) == IF i < a.length THEN a.buffer[a.byteOffset + i + 1] ELSE -1

\* a.slice(start, end) for 0 <= start: both ends are clamped to the length
Slice(a, start, end) ==
    SubSeq(a.buffer, a.byteOffset + Min(start, a.length) + 1,
                     a.byteOffset + Min(end, a.length))

\* new DataView(buffer).getUint32(pos) throws a RangeError unless the four
\* bytes from pos lie in the buffer
getUint32Throws(buffer, pos) == pos + 4 > Len(buffer)

\* new DataView(buffer).getUint32(pos): the big-endian value
getUint32(buffer, pos) ==
    buffer[pos + 1] * 16777216 + buffer[pos + 2] * 65536
        + buffer[pos + 3] * 256 + buffer[pos + 4]

(***************************************************************************)
(* String literals of the code, as UTF-16 code units / ASCII bytes.         *)
(***************************************************************************)
Str_tEXt == <<116, 69, 88, 116>>
Str_IHDR == <<73, 72, 68, 82>>
Str_IEND == <<73, 69, 78, 68>>
Str_parameters == <<112, 97, 114, 97, 109, 101, 116, 101, 114, 115>>
Str_BananaProData == <<66, 97, 110, 97, 110, 97, 80, 114, 111, 68, 97, 116, 97>>
\* the bytes 137, 80, 78, 71 the writer compares with, which are the
\* big-endian bytes of the reader's 0x89504E47
PngSignature == <<137, 80, 78, 71>>

(***************************************************************************)
(* writePngMetadata (src/index.tsx 412-467).  A call returns a Uint8Array   *)
(* or throws; alias tells that the array returned is the argument itself.   *)
(***************************************************************************)
Returned(bytes, alias) == [kind |-> "return", bytes |-> bytes, alias |-> alias]
Thrown == [kind |-> "throw", bytes |-> <<>>, alias |-> FALSE]

\* BuildChunk with the checksum taken over the data alone, without the type
BuildChunk_CrcOfData(key, value) ==
    LET chunkData == TextEncode(key) \o <<0>> \o TextEncode(value)
    IN  Uint32Bytes(Len(chunkData)) \o TextEncode(Str_tEXt) \o chunkData
            \o Uint32Bytes(crc32(chunkData))

\* lines 416-441: the chunk built for key and value
BuildChunk(key, value) ==
    LET keyBytes == TextEncode(key)
        textBytes == TextEncode(value)
        chunkData == keyBytes \o <<0>> \o textBytes
        len == Len(chunkData)
        lenBuf == Uint32Bytes(len)
        typeBuf == TextEncode(Str_tEXt)
        crcCheck == typeBuf \o chunkData
        crcVal == crc32(crcCheck)
        crcBuf == Uint32Bytes(crcVal)
    IN  lenBuf \o typeBuf \o chunkData \o crcBuf

\* InsertAfter with the insertion point before the CRC of IHDR
InsertAfter_BeforeCrc(originalPng, chunk, pos, chunkLen) ==
    LET insertionPoint == pos + 8 + chunkLen
    IN  IF insertionPoint > originalPng.length
        THEN Thrown
        ELSE Returned(Slice(originalPng, 0, insertionPoint) \o chunk
                          \o Slice(originalPng, insertionPoint, originalPng.length),
                      FALSE)

\* lines 455-460: the new array, when the chunk at pos is IHDR
InsertAfter(originalPng, chunk, pos, chunkLen) ==
    LET insertionPoint == pos + 8 + chunkLen + 4
    IN  IF insertionPoint > originalPng.length
        THEN Thrown   \* newPng.set(chunk, insertionPoint): offset out of bounds
        ELSE Returned(Slice(originalPng, 0, insertionPoint) \o chunk
                          \o Slice(originalPng, insertionPoint, originalPng.length),
                      FALSE)

\* WriteWalk that takes a chunk of type IHDR as the anchor only when its CRC
\* is right
RECURSIVE WriteWalk_ChecksCrc(_, _, _)
WriteWalk_ChecksCrc(originalPng, chunk, pos) ==
    IF ~(pos < originalPng.length) THEN Returned(Bytes(originalPng), TRUE)
    ELSE IF getUint32Throws(originalPng.buffer, pos) THEN Thrown
    ELSE LET chunkLen == getUint32(originalPng.buffer, pos)
             type == Slice(originalPng, pos + 4, pos + 8)
             crcOk == Slice(originalPng, pos + 8 + chunkLen, pos + 12 + chunkLen)
                          = Uint32Bytes(crc32(Slice(originalPng, pos + 4, pos + 8 + chunkLen)))
         IN  IF type = Str_IHDR /\ crcOk
             THEN InsertAfter(originalPng, chunk, pos, chunkLen)
             ELSE WriteWalk_ChecksCrc(originalPng, chunk, pos + 8 + chunkLen + 4)

\* lines 450-466: the loop from pos; the length is read from the view's
\* buffer at pos, the type from the view
RECURSIVE WriteWalk(_, _, _)
WriteWalk(originalPng, chunk, pos) ==
    IF ~(pos < originalPng.length) THEN Returned(Bytes(originalPng), TRUE)
    ELSE IF getUint32Throws(originalPng.buffer, pos) THEN Thrown
    ELSE LET chunkLen == getUint32(originalPng.buffer, pos)
             type == Slice(originalPng, pos + 4, pos + 8)
         IN  IF type = Str_IHDR
             THEN InsertAfter(originalPng, chunk, pos, chunkLen)
             ELSE WriteWalk(originalPng, chunk, pos + 8 + chunkLen + 4)

\* BadSignature with && in place of ||
BadSignature_AllDiffer(originalPng) ==
    /\ At(originalPng, 0) # PngSignature[1]
    /\ At(originalPng, 1) # PngSignature[2]
    /\ At(originalPng, 2) # PngSignature[3]
    /\ At(originalPng, 3) # PngSignature[4]

\* lines 444-447
BadSignature(originalPng) ==
    \/ At(originalPng, 0) # PngSignature[1]
    \/ At(originalPng, 1) # PngSignature[2]
    \/ At(originalPng, 2) # PngSignature[3]
    \/ At(originalPng, 3) # PngSignature[4]

writePngMetadata(originalPng, key, value) ==
    LET chunk == BuildChunk(key, value)
    IN  IF BadSignature(originalPng) THEN Returned(Bytes(originalPng), TRUE)
        ELSE WriteWalk(originalPng, chunk, 8)

(***************************************************************************)
(* extractPngMetadata (src/index.tsx 469-509).  A call returns a string,    *)
(* returns null, or throws.                                                 *)
(***************************************************************************)
Null == [kind |-> "null", str |-> <<>>]
String(s) == [kind |-> "string", str |-> s]
DecodeThrown == [kind |-> "throw", str |-> <<>>]

\* lines 485-491: the index of the first 0 at or after i, or -1
RECURSIVE NullIndex(_, _)
NullIndex(chunkData, i) ==
    IF ~(i < Len(chunkData)) THEN -1
    ELSE IF chunkData[i + 1] = 0 THEN i
    ELSE NullIndex(chunkData, i + 1)

\* lines 483-503: what a chunk of the given type and data makes the call
\* return, or Null when the loop goes on
MatchText(type, chunkData) ==
    LET nullIndex == NullIndex(chunkData, 0)
        keyword == TextDecode(SubSeq(chunkData, 1, nullIndex))
        text == TextDecode(SubSeq(chunkData, nullIndex + 2, Len(chunkData)))
    IN  IF type = Str_tEXt /\ nullIndex > -1
           /\ (keyword = Str_parameters \/ keyword = Str_BananaProData)
        THEN String(text)
        ELSE Null

\* ChunkOverruns without the 4 bytes of the CRC
ChunkOverruns_NoCrc(buffer, offset, length) == offset + 8 + length > Len(buffer)

\* lines 477 and 479: the two bounds checks
HeaderOverruns(buffer, offset) == offset + 8 > Len(buffer)
ChunkOverruns(buffer, offset, length) == offset + 8 + length + 4 > Len(buffer)

\* ExtractWalk that verifies the CRC of a tEXt chunk and passes over the
\* chunk when it is wrong
RECURSIVE ExtractWalk_ChecksCrc(_, _)
ExtractWalk_ChecksCrc(buffer, offset) ==
    IF ~(offset < Len(buffer)) THEN Null
    ELSE IF HeaderOverruns(buffer, offset) THEN Null
    ELSE IF getUint32Throws(buffer, offset) THEN DecodeThrown
    ELSE LET length == getUint32(buffer, offset) IN
         IF ChunkOverruns(buffer, offset, length) THEN Null
         ELSE LET uint8 == Uint8Array(buffer)
                  type == Slice(uint8, offset + 4, offset + 8)
                  chunkData == Slice(uint8, offset + 8, offset + 8 + length)
                  crcOk == Slice(uint8, offset + 8 + length, offset + 12 + length)
                               = Uint32Bytes(crc32(type \o chunkData))
                  found == MatchText(type, chunkData)
              IN  IF found.kind = "string" /\ crcOk THEN found
                  ELSE IF type = Str_IEND THEN Null
                  ELSE ExtractWalk_ChecksCrc(buffer, offset + 12 + length)

\* ExtractWalk that does not stop at a chunk of type IEND
RECURSIVE ExtractWalk_PastIEND(_, _)
ExtractWalk_PastIEND(buffer, offset) ==
    IF ~(offset < Len(buffer)) THEN Null
    ELSE IF HeaderOverruns(buffer, offset) THEN Null
    ELSE IF getUint32Throws(buffer, offset) THEN DecodeThrown
    ELSE LET length == getUint32(buffer, offset) IN
         IF ChunkOverruns(buffer, offset, length) THEN Null
         ELSE LET uint8 == Uint8Array(buffer)
                  type == Slice(uint8, offset + 4, offset + 8)
                  chunkData == Slice(uint8, offset + 8, offset + 8 + length)
                  found == MatchText(type, chunkData)
              IN  IF found.kind = "string" THEN found
                  ELSE ExtractWalk_PastIEND(buffer, offset + 12 + length)

\* lines 476-508: the loop from offset
RECURSIVE ExtractWalk(_, _)
ExtractWalk(buffer, offset) ==
    IF ~(offset < Len(buffer)) THEN Null
    ELSE IF HeaderOverruns(buffer, offset) THEN Null
    ELSE IF getUint32Throws(buffer, offset) THEN DecodeThrown
    ELSE LET length == getUint32(buffer, offset) IN
         IF ChunkOverruns(buffer, offset, length) THEN Null
         ELSE LET uint8 == Uint8Array(buffer)
                  type == Slice(uint8, offset + 4, offset + 8)
                  chunkData == Slice(uint8, offset + 8, offset + 8 + length)
                  found == MatchText(type, chunkData)
              IN  IF found.kind = "string" THEN found
                  ELSE IF type = Str_IEND THEN Null
                  ELSE ExtractWalk(buffer, offset + 12 + length)

\* SignatureMismatch that looks at the first byte only
SignatureMismatch_FirstByte(buffer) == buffer[1] # PngSignature[1]

\* line 473: view.getUint32(0) !== 0x89504E47
SignatureMismatch(buffer) == SubSeq(buffer, 1, 4) # PngSignature

extractPngMetadata(buffer) ==
    IF getUint32Throws(buffer, 0) THEN DecodeThrown
    ELSE IF SignatureMismatch(buffer) THEN Null
    ELSE ExtractWalk(buffer, 8)

(***************************************************************************)
(* The images the codec is given.  A well-formed chunk is length, type,     *)
(* data and the CRC of type and data; an image is the 8-byte signature and  *)
(* up to MaxChunks chunks, or such an image cut short, with a damaged       *)
(* signature or with wrong CRCs (a pasted or dropped file is arbitrary      *)
(* bytes).                                                                  *)
(***************************************************************************)
Chunk(type, data) ==
    Uint32Bytes(Len(data)) \o type \o data \o Uint32Bytes(crc32(type \o data))

FullSignature == <<137, 80, 78, 71, 13, 10, 26, 10>>
BOM == <<239, 187, 191>>

\* a 1 x 1 truecolour header
IHDRChunk == Chunk(Str_IHDR, <<0, 0, 0, 1, 0, 0, 0, 1, 8, 2, 0, 0, 0>>)
IENDChunk == Chunk(Str_IEND, <<>>)
\* parameters NUL "p"
TextParameters == Chunk(Str_tEXt, Str_parameters \o <<0, 112>>)
\* BananaProData NUL "{}"
TextBanana == Chunk(Str_tEXt, Str_BananaProData \o <<0, 123, 125>>)
\* Comment NUL "c"
TextComment == Chunk(Str_tEXt, <<67, 111, 109, 109, 101, 110, 116, 0, 99>>)
\* a tEXt chunk with no NUL in its data
TextNoNull == Chunk(Str_tEXt, Str_parameters)
\* a keyword that starts with the bytes EF BB BF
TextBomKeyword == Chunk(Str_tEXt, BOM \o Str_parameters \o <<0, 107>>)
\* a text that starts with EF BB BF and holds a byte that is not UTF-8
TextOddText == Chunk(Str_tEXt, Str_BananaProData \o <<0>> \o BOM \o <<116, 255>>)
\* a chunk header whose declared length (255) runs past any image here
OverrunHeader == <<0, 0, 0, 255, 73, 68, 65, 84>>

ChunkMenu ==
    { IHDRChunk, IENDChunk, TextParameters, TextBanana, TextComment,
      TextNoNull, TextBomKeyword, TextOddText, OverrunHeader }

RECURSIVE ChunkStreams(_)
ChunkStreams(n) ==
    IF n = 0 THEN { <<>> }
    ELSE LET shorter == ChunkStreams(n - 1)
         IN  shorter \cup { s \o c : s \in shorter, c \in ChunkMenu }

Prefixes(b) == { SubSeq(b, 1, n) : n \in 0..Len(b) }

\* b with byte i (1-based) replaced by x
WithByte(b, i, x) == [b EXCEPT ![i] = x]

WholeImages == { FullSignature \o s : s \in ChunkStreams(MaxChunks) }

CutImages ==
    Prefixes(FullSignature \o IHDRChunk \o IENDChunk)
        \cup Prefixes(FullSignature \o TextParameters \o IENDChunk)

DamagedImages ==
    { WithByte(FullSignature \o IHDRChunk \o TextParameters \o IENDChunk, i, 0) :
          i \in 1..4 }
        \cup { <<137, 80, 78, 70>>, <<80, 78, 71>> }

\* chunk c with the four bytes of its CRC complemented
WrongCrc(c) ==
    SubSeq(c, 1, Len(c) - 4) \o BitXor(SubSeq(c, Len(c) - 3, Len(c)), <<255, 255, 255, 255>>)

\* well-formed streams but for the CRC of some chunks
CrcDamagedImages ==
    { FullSignature \o WrongCrc(IHDRChunk) \o WrongCrc(TextParameters) \o IENDChunk,
      FullSignature \o IHDRChunk \o WrongCrc(TextBanana) \o WrongCrc(IENDChunk),
      FullSignature \o TextComment \o WrongCrc(IHDRChunk) }

Images == WholeImages \cup CutImages \cup DamagedImages \cup CrcDamagedImages

(***************************************************************************)
(* The keys and values writePngMetadata is called with.                     *)
(***************************************************************************)
Str_Comment == <<67, 111, 109, 109, 101, 110, 116>>
Keys == { Str_parameters, Str_BananaProData, Str_Comment }
RecognizedKeys == { Str_parameters, Str_BananaProData }
\* "", "{}" and U+FEFF "a"
Values == { <<>>, <<123, 125>>, <<65279, 97>> }
EncodeInputs == (RecognizedKeys \X Values) \cup { <<Str_Comment, <<123, 125>>>> }

(***************************************************************************)
(* The state machine.  png is the image at hand; Encode calls               *)
(* writePngMetadata on it and the image at hand becomes what it returned;   *)
(* Decode calls extractPngMetadata on it; Checksum calls crc32.  op is the  *)
(* last call made; encKey, encVal and encRes are the arguments and the      *)
(* result of the last writePngMetadata call and encIn is the content of its *)
(* argument array when it ended; decRes is the result of                    *)
(* extractPngMetadata on the image at hand, once it has been called on it;  *)
(* crcIn and crcOut are the argument and the result of the last crc32 call. *)
(* calls lists the writePngMetadata calls made, with the content of the     *)
(* argument array when each began, and crcLog the crc32 calls with their    *)
(* results.                                                                 *)
(***************************************************************************)
NoCall == [kind |-> "none", bytes |-> <<>>, alias |-> FALSE]
NoDecode == [kind |-> "none", str |-> <<>>]

\* no chunk walk is being stepped through
NoWalk == [fn |-> "none", pc |-> "done", pos |-> 0, iter |-> 0, out |-> "none"]
\* generateContentWithRetry has not been called
NoRetry ==
    [pc |-> "idle", retries |-> 0, delay |-> 0, outcomes |-> <<>>, waits |-> <<>>,
     result |-> [t |-> "none"], raised |-> [t |-> "none"]]
\* writePngMetadata has not been called on a view of a larger buffer
NoView == [buffer |-> <<>>, byteOffset |-> 0, length |-> 0]
\* the value null of JavaScript
JsNull == [t |-> "null"]

\* line 39 (let lastAnalysisData = null) and no call of the application made
AppIdle ==
    /\ walk = NoWalk
    /\ retry = NoRetry
    /\ lastAnalysisData = JsNull
    /\ popLog = <<>>
    /\ loadRes = "none"
    /\ view = NoView

\* the state once the module is loaded, before any call: the loop of lines
\* 395-402 has filled crcTable
Loaded ==
    /\ crcTable = crcTableLoaded
    /\ crcOut = 0
    /\ crcLog = <<>>
    /\ calls = <<>>
    /\ op = "load"
    /\ encIn = <<>>
    /\ encKey = <<>>
    /\ encVal = <<>>
    /\ encRes = NoCall
    /\ decRes = NoDecode
    /\ nEnc = 0

Init ==
    /\ Loaded
    /\ AppIdle
    /\ crcIn = <<>>
    /\ png \in Images

\* EncodeUpTo that builds the result in place: when a chunk is inserted, the
\* argument array is left holding the first bytes of the result
EncodeUpTo_InPlace(key, value, max) ==
    /\ nEnc < max
    /\ LET res == writePngMetadata(Uint8Array(png), key, value)
       IN  /\ encRes' = res
           /\ png' = IF res.kind = "return" THEN res.bytes ELSE png
           /\ encIn' = IF res.kind = "return" THEN SubSeq(res.bytes, 1, Len(png)) ELSE png
    /\ encKey' = key
    /\ encVal' = value
    /\ calls' = Append(calls, [in |-> png, key |-> key, value |-> value])
    /\ op' = "encode"
    /\ nEnc' = nEnc + 1
    /\ decRes' = NoDecode
    /\ UNCHANGED <<crcTable, crcIn, crcOut, crcLog>>
    /\ UNCHANGED appVars

\* a writePngMetadata call on the image at hand, the max-th at most
EncodeUpTo(key, value, max) ==
    /\ nEnc < max
    /\ LET res == writePngMetadata(Uint8Array(png), key, value)
       IN  /\ encRes' = res
           /\ png' = IF res.kind = "return" THEN res.bytes ELSE png
    /\ encIn' = png
    /\ encKey' = key
    /\ encVal' = value
    /\ calls' = Append(calls, [in |-> png, key |-> key, value |-> value])
    /\ op' = "encode"
    /\ nEnc' = nEnc + 1
    /\ decRes' = NoDecode
    /\ UNCHANGED <<crcTable, crcIn, crcOut, crcLog>>
    /\ UNCHANGED appVars

Encode(key, value) == EncodeUpTo(key, value, MaxEncodes)

Decode ==
    /\ op # "decode"
    /\ decRes' = extractPngMetadata(png)
    /\ op' = "decode"
    /\ UNCHANGED <<png, encIn, encKey, encVal, encRes, nEnc,
                   crcTable, crcIn, crcOut, crcLog, calls>>
    /\ UNCHANGED appVars

Next ==
    \/ \E kv \in EncodeInputs : Encode(kv[1], kv[2])
    \/ Decode

Spec == Init /\ [][Next]_vars

(***************************************************************************)
(* crc32 on its own: the argument is drawn from CrcInputs and crc32 is      *)
(* applied to it, MaxCrcCalls times at most.                                *)
(***************************************************************************)
\* "123456789", the check string of the CRC catalogues
Str_Check == <<49, 50, 51, 52, 53, 54, 55, 56, 57>>
CrcAlphabet == {0, 49, 255}

RECURSIVE SeqsUpTo(_)
SeqsUpTo(n) ==
    IF n = 0 THEN { <<>> }
    ELSE LET shorter == SeqsUpTo(n - 1)
         IN  shorter \cup { Append(q, x) : q \in shorter, x \in CrcAlphabet }

\* every sequence of one byte, every sequence over CrcAlphabet of up to
\* MaxCrcLen bytes, and three longer ones
CrcInputs ==
    { <<x>> : x \in 0..255 } \cup SeqsUpTo(MaxCrcLen)
        \cup { Str_Check, Str_IEND, Str_tEXt \o Str_parameters \o <<0, 123, 125>> }

\* a crc32 call
Checksum(buf) ==
    /\ Len(crcLog) < MaxCrcCalls
    /\ crcIn' = buf
    /\ crcOut' = crc32(buf)
    /\ crcLog' = Append(crcLog, <<buf, crc32(buf)>>)
    /\ op' = "crc32"
    /\ UNCHANGED <<png, encIn, encKey, encVal, encRes, decRes, nEnc, crcTable, calls>>
    /\ UNCHANGED appVars

InitCrc ==
    /\ Loaded
    /\ AppIdle
    /\ crcIn \in CrcInputs
    /\ png = <<>>

NextCrc == Checksum(crcIn)

SpecCrc == InitCrc /\ [][NextCrc]_vars

(***************************************************************************)
(* The three functions called in any order on one image: writePngMetadata   *)
(* and extractPngMetadata on the image at hand, crc32 on the byte sequences *)
(* of CallBytes.                                                            *)
(***************************************************************************)
CallImages == { FullSignature \o IHDRChunk \o IENDChunk, FullSignature \o TextParameters }
CallInputs == { <<Str_BananaProData, <<123, 125>>>>, <<Str_Comment, <<>>>> }
CallBytes == { <<>>, <<0>>, Str_IEND }

InitCalls ==
    /\ Loaded
    /\ AppIdle
    /\ crcIn = <<>>
    /\ png \in CallImages

NextCalls ==
    \/ \E kv \in CallInputs : Encode(kv[1], kv[2])
    \/ Decode
    \/ \E buf \in CallBytes : Checksum(buf)

SpecCalls == InitCalls /\ [][NextCalls]_vars

(***************************************************************************)
(* Stacked calls: writePngMetadata is called on a base image, then on what  *)
(* it returned, up to MaxStack times, and extractPngMetadata is called on   *)
(* the image at hand.                                                       *)
(***************************************************************************)
SeqBases ==
    { FullSignature \o IHDRChunk,
      FullSignature \o IHDRChunk \o IENDChunk,
      FullSignature \o IHDRChunk \o TextComment \o IENDChunk }

\* both keywords with "{}", "parameters" with U+FEFF "a", "BananaProData"
\* with "", "Comment" with "c"
StackInputs ==
    { <<Str_parameters, <<123, 125>>>>, <<Str_BananaProData, <<123, 125>>>>,
      <<Str_parameters, <<65279, 97>>>>, <<Str_BananaProData, <<>>>>,
      <<Str_Comment, <<99>>>> }

Stack(key, value) == EncodeUpTo(key, value, MaxStack)

InitSeq ==
    /\ Loaded
    /\ AppIdle
    /\ crcIn = <<>>
    /\ png \in SeqBases

NextSeq ==
    \/ \E kv \in StackInputs : Stack(kv[1], kv[2])
    \/ Decode

SpecSeq == InitSeq /\ [][NextSeq]_vars

(***************************************************************************)
(* Keys other than the two recognized keywords: writePngMetadata is called  *)
(* once with such a key and extractPngMetadata on what it returned.         *)
(***************************************************************************)
\* "Comment", "Parameters", "parameters" NUL "x", U+FEFF "parameters",
\* "BananaProData" NUL, "" and NUL
OtherKeys ==
    { Str_Comment,
      <<80>> \o Tail(Str_parameters),
      Str_parameters \o <<0, 120>>,
      <<65279>> \o Str_parameters,
      Str_BananaProData \o <<0>>,
      <<>>,
      <<0>> }

KeyInputs == OtherKeys \X { <<123, 125>> }

InitKeys ==
    /\ Loaded
    /\ AppIdle
    /\ crcIn = <<>>
    /\ png \in Images

NextKeys ==
    \/ \E kv \in KeyInputs : Encode(kv[1], kv[2])
    \/ Decode

SpecKeys == InitKeys /\ [][NextKeys]_vars

(***************************************************************************)
(* writePngMetadata on a view: the image is a part of a larger buffer, as   *)
(* new Uint8Array(buffer, byteOffset, length) or subarray give it.          *)
(***************************************************************************)
\* the bytes of the backing buffer before the view: one byte, four bytes,
\* twelve bytes
ViewBefore == { <<0>>, <<0, 0, 0, 0>>, <<0, 0, 0, 0, 0, 0, 0, 0, 0, 0, 0, 0>> }
\* the bytes of the backing buffer after the view
ViewAfter == { <<>>, <<0, 0, 0, 0>> }

ViewInputs == { <<Str_BananaProData, <<123, 125>>>> }

\* a writePngMetadata call on a view of the image at hand inside a buffer
\* that holds the bytes before in front of it and the bytes after behind it
EncodeView(before, after, key, value) ==
    /\ nEnc < MaxEncodes
    /\ \E originalPng \in { [buffer |-> before \o png \o after,
                             byteOffset |-> Len(before), length |-> Len(png)] } :
           /\ view' = originalPng
           /\ \E res \in { writePngMetadata(originalPng, key, value) } :
                  /\ encRes' = res
                  /\ png' = IF res.kind = "return" THEN res.bytes ELSE png
    /\ encIn' = png
    /\ encKey' = key
    /\ encVal' = value
    /\ calls' = Append(calls, [in |-> png, key |-> key, value |-> value])
    /\ op' = "encode"
    /\ nEnc' = nEnc + 1
    /\ decRes' = NoDecode
    /\ UNCHANGED <<crcTable, crcIn, crcOut, crcLog>>
    /\ UNCHANGED <<walk, retry, lastAnalysisData, popLog, loadRes>>

InitView ==
    /\ Loaded
    /\ AppIdle
    /\ crcIn = <<>>
    /\ png \in Images

NextView ==
    \E before \in ViewBefore, after \in ViewAfter, kv \in ViewInputs :
        EncodeView(before, after, kv[1], kv[2])

SpecView == InitView /\ [][NextView]_vars

(***************************************************************************)
(* The two chunk walks, one loop iteration at a time.  walk holds the       *)
(* function that walks (fn), whether its loop is still running (pc), the    *)
(* offset (pos), the number of iterations begun (iter) and, once the loop   *)
(* is left, how (out): "return" the input returned, "insert" an IHDR chunk  *)
(* found, "string" a text returned, "null", or "throw".                     *)
(***************************************************************************)
\* a walk over a stream that holds one byte only
WalkShort == { <<>>, <<137>>, <<137, 80, 78, 71>>, SubSeq(FullSignature, 1, 7) }

WalkImages == Images \cup WalkShort

\* line 465: pos += 8 + chunkLen + 4
WriteAdvance_LengthOnly(pos, chunkLen) == pos + chunkLen
WriteAdvance(pos, chunkLen) == pos + 8 + chunkLen + 4

\* line 505: offset += 12 + length
ExtractAdvance(offset, length) == offset + 12 + length

Leave(w, out) == [w EXCEPT !.pc = "done", !.out = out]
Enter(w) == [w EXCEPT !.iter = @ + 1]

\* lines 444-449: writePngMetadata up to its loop
BeginWrite ==
    /\ walk.fn = "none"
    /\ walk' = IF BadSignature(Uint8Array(png))
               THEN [fn |-> "write", pc |-> "done", pos |-> 0, iter |-> 0, out |-> "return"]
               ELSE [fn |-> "write", pc |-> "loop", pos |-> 8, iter |-> 0, out |-> "none"]
    /\ UNCHANGED codecVars
    /\ UNCHANGED <<retry, lastAnalysisData, popLog, loadRes, view>>

\* lines 450-466: the test of the loop and one iteration
WriteStep ==
    /\ walk.fn = "write"
    /\ walk.pc = "loop"
    /\ LET originalPng == Uint8Array(png)
           pos == walk.pos
       IN  walk' =
               IF ~(pos < originalPng.length) THEN Leave(walk, "return")
               ELSE IF getUint32Throws(originalPng.buffer, pos)
                    THEN Leave(Enter(walk), "throw")
               ELSE IF Slice(originalPng, pos + 4, pos + 8) = Str_IHDR
                    THEN Leave(Enter(walk), "insert")
               ELSE [Enter(walk) EXCEPT
                         !.pos = WriteAdvance(pos, getUint32(originalPng.buffer, pos))]
    /\ UNCHANGED codecVars
    /\ UNCHANGED <<retry, lastAnalysisData, popLog, loadRes, view>>

\* lines 470-475: extractPngMetadata up to its loop
BeginExtract ==
    /\ walk.fn = "none"
    /\ walk' = IF getUint32Throws(png, 0)
               THEN [fn |-> "extract", pc |-> "done", pos |-> 0, iter |-> 0, out |-> "throw"]
               ELSE IF SignatureMismatch(png)
               THEN [fn |-> "extract", pc |-> "done", pos |-> 0, iter |-> 0, out |-> "null"]
               ELSE [fn |-> "extract", pc |-> "loop", pos |-> 8, iter |-> 0, out |-> "none"]
    /\ UNCHANGED codecVars
    /\ UNCHANGED <<retry, lastAnalysisData, popLog, loadRes, view>>

\* lines 476-507: the test of the loop and one iteration
ExtractStep ==
    /\ walk.fn = "extract"
    /\ walk.pc = "loop"
    /\ LET buffer == png
           offset == walk.pos
           uint8 == Uint8Array(buffer)
       IN  walk' =
               IF ~(offset < Len(buffer)) THEN Leave(walk, "null")
               ELSE IF HeaderOverruns(buffer, offset) THEN Leave(Enter(walk), "null")
               ELSE IF getUint32Throws(buffer, offset) THEN Leave(Enter(walk), "throw")
               ELSE IF ChunkOverruns(buffer, offset, getUint32(buffer, offset))
                    THEN Leave(Enter(walk), "null")
               ELSE LET length == getUint32(buffer, offset)
                        type == Slice(uint8, offset + 4, offset + 8)
                        chunkData == Slice(uint8, offset + 8, offset + 8 + length)
                    IN  IF MatchText(type, chunkData).kind = "string"
                        THEN Leave(Enter(walk), "string")
                        ELSE IF type = Str_IEND
                        THEN [Leave(Enter(walk), "null") EXCEPT
                                  !.pos = ExtractAdvance(offset, length)]
                        ELSE [Enter(walk) EXCEPT !.pos = ExtractAdvance(offset, length)]
    /\ UNCHANGED codecVars
    /\ UNCHANGED <<retry, lastAnalysisData, popLog, loadRes, view>>

InitWalk ==
    /\ Loaded
    /\ AppIdle
    /\ crcIn = <<>>
    /\ png \in WalkImages

NextWalk ==
    \/ BeginWrite
    \/ WriteStep
    \/ BeginExtract
    \/ ExtractStep

\* a call that has begun goes on: the loops do not wait for anything
SpecWalk == InitWalk /\ [][NextWalk]_vars /\ WF_vars(NextWalk)

(***************************************************************************)
(* generateContentWithRetry (src/index.tsx 853-871).  retry holds where the *)
(* call stands (pc): "backend" a backend call is awaited, "timer" the delay *)
(* is awaited, "returned", "raised"; the arguments retries and delay of the *)
(* innermost call; the outcomes of the backend calls in order; the delays   *)
(* waited in order; the response returned or the value raised.              *)
(*                                                                          *)
(* A value the backend call rejects with is described by what line 859      *)
(* reads of it: its type t, the text str of e.toString(), the text message  *)
(* of e.message || "", and json, what JSON.stringify(e) does: it returns a  *)
(* text, returns undefined, or throws a TypeError (a circular structure).   *)
(* For null and undefined e.toString() throws a TypeError.                  *)
(***************************************************************************)
Str_429 == <<52, 50, 57>>
Str_RESOURCE_EXHAUSTED ==
    <<82, 69, 83, 79, 85, 82, 67, 69, 95, 69, 88, 72, 65, 85, 83, 84, 69, 68>>
Str_503 == <<53, 48, 51>>
Str_overloaded == <<111, 118, 101, 114, 108, 111, 97, 100, 101, 100>>
Str_undefined == <<117, 110, 100, 101, 102, 105, 110, 101, 100>>
Str_Error == <<69, 114, 114, 111, 114>>
Str_ObjectObject ==
    <<91, 111, 98, 106, 101, 99, 116, 32, 79, 98, 106, 101, 99, 116, 93>>
Str_EmptyObject == <<123, 125>>

DefaultRetries == 3
DefaultDelay == 1000

JsonText(str) == [kind |-> "text", str |-> str]
JsonUndefined == [kind |-> "undefined", str |-> <<>>]
JsonThrows == [kind |-> "throw", str |-> <<>>]

Rejection(t, str, message, json) ==
    [t |-> t, str |-> str, message |-> message, json |-> json]

\* new Error(message): toString gives "Error: " and the message, or "Error"
\* alone for an empty message; it has no enumerable property of its own
NewError(message) ==
    Rejection("Error",
              IF message = <<>> THEN Str_Error ELSE Str_Error \o <<58, 32>> \o message,
              message, JsonText(Str_EmptyObject))
\* an Error that holds a reference to itself (a request that holds its
\* response that holds the request)
CircularError(message) ==
    Rejection("Error", Str_Error \o <<58, 32>> \o message, message, JsonThrows)
\* the object { status: n } for a status n written in digits
StatusObject(digits) ==
    Rejection("object", Str_ObjectObject, <<>>,
              JsonText(<<123, 34, 115, 116, 97, 116, 117, 115, 34, 58>> \o digits \o <<125>>))
\* a string of code units above 0x1F without quote and backslash
StringValue(str) == Rejection("string", str, <<>>, JsonText(<<34>> \o str \o <<34>>))
\* a function: JSON.stringify gives undefined
FunctionValue(src) == Rejection("function", src, <<>>, JsonUndefined)
NullValue == Rejection("null", <<>>, <<>>, JsonUndefined)
UndefinedValue == Rejection("undefined", <<>>, <<>>, JsonUndefined)
\* the TypeError of e.toString() on null or undefined and of JSON.stringify
\* on a circular structure
TypeErrorValue == Rejection("TypeError", <<>>, <<>>, JsonText(Str_EmptyObject))

\* Error("bad"), Error("HTTP 429"), Error("RESOURCE_EXHAUSTED"),
\* { status: 503 }, "overloaded", Error("Overloaded"), Error(""), null,
\* undefined, a circular Error("bad"), a circular Error("429"), () => 0
Rejections ==
    { NewError(<<98, 97, 100>>),
      NewError(<<72, 84, 84, 80, 32>> \o Str_429),
      NewError(Str_RESOURCE_EXHAUSTED),
      StatusObject(Str_503),
      StringValue(Str_overloaded),
      NewError(<<79>> \o Tail(Str_overloaded)),
      NewError(<<>>),
      NullValue,
      UndefinedValue,
      CircularError(<<98, 97, 100>>),
      CircularError(Str_429),
      FunctionValue(<<40, 41, 32, 61, 62, 32, 48>>) }

\* the responses of the backend
Responses == { [t |-> "response", id |-> 1] }

\* String.prototype.includes
Includes(str, sub) ==
    \E i \in 1..(Len(str) - Len(sub) + 1) : SubSeq(str, i, i + Len(sub) - 1) = sub

\* line 859: evaluating the right-hand side throws a TypeError
EStrThrows(e) == e.t \in {"null", "undefined"} \/ e.json.kind = "throw"
\* line 859: e.toString() + (e.message || "") + JSON.stringify(e)
EStr(e) ==
    e.str \o e.message \o (IF e.json.kind = "undefined" THEN Str_undefined ELSE e.json.str)

\* line 861: the test on eStr
Retryable(eStr) ==
    \/ Includes(eStr, Str_429)
    \/ Includes(eStr, Str_RESOURCE_EXHAUSTED)
    \/ Includes(eStr, Str_503)
    \/ Includes(eStr, Str_overloaded)

\* line 858: retries > 0
RetriesLeft_OneMore(retries) == retries >= 0
RetriesLeft(retries) == retries > 0

\* line 866: delay * 2
NextDelay(delay) == delay * 2

Raise(r, e) == [r EXCEPT !.pc = "raised", !.raised = e]

\* lines 857-869: the catch block with e caught, up to its await or throw
Catch(r, e) ==
    IF RetriesLeft(r.retries)
    THEN IF EStrThrows(e) THEN Raise(r, TypeErrorValue)
         ELSE IF Retryable(EStr(e)) THEN [r EXCEPT !.pc = "timer"]
         ELSE Raise(r, e)
    ELSE Raise(r, e)

\* a caller calls generateContentWithRetry(ai, params): the backend is called
CallWithRetry ==
    /\ retry.pc = "idle"
    /\ retry' = [retry EXCEPT !.pc = "backend", !.retries = DefaultRetries,
                              !.delay = DefaultDelay]
    /\ UNCHANGED codecVars
    /\ UNCHANGED <<walk, lastAnalysisData, popLog, loadRes, view>>

\* line 856: the backend call fulfils with a response, which is returned
Resolve(response) ==
    /\ retry.pc = "backend"
    /\ retry' = [retry EXCEPT !.pc = "returned",
                              !.outcomes = Append(@, [ok |-> TRUE, v |-> response]),
                              !.result = response]
    /\ UNCHANGED codecVars
    /\ UNCHANGED <<walk, lastAnalysisData, popLog, loadRes, view>>

\* lines 857-869: the backend call rejects with e
Reject(e) ==
    /\ retry.pc = "backend"
    /\ retry' = Catch([retry EXCEPT !.outcomes = Append(@, [ok |-> FALSE, v |-> e])], e)
    /\ UNCHANGED codecVars
    /\ UNCHANGED <<walk, lastAnalysisData, popLog, loadRes, view>>

\* lines 864-866: the timer fires and the function calls itself, which calls
\* the backend
TimerFires ==
    /\ retry.pc = "timer"
    /\ retry' = [retry EXCEPT !.pc = "backend",
                              !.waits = Append(@, retry.delay),
                              !.retries = @ - 1,
                              !.delay = NextDelay(@)]
    /\ UNCHANGED codecVars
    /\ UNCHANGED <<walk, lastAnalysisData, popLog, loadRes, view>>

InitRetry ==
    /\ Loaded
    /\ AppIdle
    /\ crcIn = <<>>
    /\ png = <<>>

NextRetry ==
    \/ CallWithRetry
    \/ \E response \in Responses : Resolve(response)
    \/ \E e \in Rejections : Reject(e)
    \/ TimerFires

\* every backend call completes and every timer fires
SpecRetry == InitRetry /\ [][NextRetry]_vars /\ WF_vars(NextRetry)

(***************************************************************************)
(* JavaScript values and JSON.parse.  A value is a record with its type t:  *)
(* a string or a number with its text str, true, false, null, undefined, an *)
(* array with its elements e, an object with its members m in the order     *)
(* they were added, each a pair <<name, value>>.                            *)
(***************************************************************************)
Undefined == [t |-> "undefined"]
JsString(str) == [t |-> "string", str |-> str]

Str_mega == <<109, 101, 103, 97>>
Str_lighting == <<108, 105, 103, 104, 116, 105, 110, 103>>
Str_scene == <<115, 99, 101, 110, 101>>
Str_view == <<118, 105, 101, 119>>
Str_true == <<116, 114, 117, 101>>
Str_false == <<102, 97, 108, 115, 101>>
Str_null == <<110, 117, 108, 108>>

\* the result of a parse step: the value and the index after it, or failure
ParseFail == [ok |-> FALSE, v |-> JsNull, i |-> 0]
ParseOk(v, i) == [ok |-> TRUE, v |-> v, i |-> i]

\* F(x), with x evaluated once
Bind(x, F(_)) == CHOOSE r \in { F(v) : v \in {x} } : TRUE

\* space, tab, line feed, carriage return
JsonWs == {32, 9, 10, 13}

RECURSIVE SkipWs(_, _)
SkipWs(s, i) == IF i <= Len(s) /\ s[i] \in JsonWs THEN SkipWs(s, i + 1) ELSE i

RECURSIVE SkipDigits(_, _)
SkipDigits(s, i) == IF i <= Len(s) /\ s[i] \in 48..57 THEN SkipDigits(s, i + 1) ELSE i

StartsWith(s, i, lit) == i + Len(lit) - 1 <= Len(s) /\ SubSeq(s, i, i + Len(lit) - 1) = lit

HexDigit(c) ==
    IF c \in 48..57 THEN c - 48
    ELSE IF c \in 65..70 THEN c - 55
    ELSE IF c \in 97..102 THEN c - 87
    ELSE -1

\* the code unit of the escape \e for e one of b f n r t
EscapeOf(e) ==
    IF e = 98 THEN 8 ELSE IF e = 102 THEN 12 ELSE IF e = 110 THEN 10
    ELSE IF e = 114 THEN 13 ELSE 9

\* the characters of a string from index i, after the opening quote
RECURSIVE ParseChars(_, _, _)
ParseChars(s, i, acc) ==
    IF i > Len(s) THEN ParseFail
    ELSE IF s[i] = 34 THEN ParseOk(JsString(acc), i + 1)
    ELSE IF s[i] < 32 THEN ParseFail
    ELSE IF s[i] # 92 THEN ParseChars(s, i + 1, Append(acc, s[i]))
    ELSE IF i + 1 > Len(s) THEN ParseFail
    ELSE LET e == s[i + 1] IN
         IF e \in {34, 92, 47} THEN ParseChars(s, i + 2, Append(acc, e))
         ELSE IF e \in {98, 102, 110, 114, 116}
              THEN ParseChars(s, i + 2, Append(acc, EscapeOf(e)))
         ELSE IF e = 117 /\ i + 5 <= Len(s) /\ \A k \in 2..5 : HexDigit(s[i + k]) >= 0
              THEN ParseChars(s, i + 6,
                              Append(acc, 4096 * HexDigit(s[i + 2]) + 256 * HexDigit(s[i + 3])
                                              + 16 * HexDigit(s[i + 4]) + HexDigit(s[i + 5])))
         ELSE ParseFail

\* a number at index i: -? (0 | [1-9] digits) (. digits)? ([eE] [+-]? digits)?
ParseNumber(s, i) ==
    LET a == IF i <= Len(s) /\ s[i] = 45 THEN i + 1 ELSE i
        b == IF a <= Len(s) /\ s[a] = 48 THEN a + 1
             ELSE IF a <= Len(s) /\ s[a] \in 49..57 THEN SkipDigits(s, a + 1)
             ELSE 0
        c == IF b > 0 /\ b <= Len(s) /\ s[b] = 46
             THEN (IF SkipDigits(s, b + 1) > b + 1 THEN SkipDigits(s, b + 1) ELSE 0)
             ELSE b
        x == IF c + 1 <= Len(s) /\ s[c + 1] \in {43, 45} THEN c + 2 ELSE c + 1
        d == IF c > 0 /\ c <= Len(s) /\ s[c] \in {101, 69}
             THEN (IF SkipDigits(s, x) > x THEN SkipDigits(s, x) ELSE 0)
             ELSE c
    IN  IF d = 0 THEN ParseFail
        ELSE ParseOk([t |-> "number", str |-> SubSeq(s, i, d - 1)], d)

RECURSIVE ParseValue(_, _)
RECURSIVE ParseMembers(_, _, _)
RECURSIVE ParseElements(_, _, _)

\* a value at or after index i0
ParseValue(s, i0) ==
    Bind(SkipWs(s, i0), LAMBDA i :
        IF i > Len(s) THEN ParseFail
        ELSE IF s[i] = 123 THEN
            Bind(SkipWs(s, i + 1), LAMBDA j :
                IF j <= Len(s) /\ s[j] = 125
                THEN ParseOk([t |-> "object", m |-> <<>>], j + 1)
                ELSE ParseMembers(s, j, <<>>))
        ELSE IF s[i] = 91 THEN
            Bind(SkipWs(s, i + 1), LAMBDA j :
                IF j <= Len(s) /\ s[j] = 93
                THEN ParseOk([t |-> "array", e |-> <<>>], j + 1)
                ELSE ParseElements(s, j, <<>>))
        ELSE IF s[i] = 34 THEN ParseChars(s, i + 1, <<>>)
        ELSE IF s[i] = 45 \/ s[i] \in 48..57 THEN ParseNumber(s, i)
        ELSE IF StartsWith(s, i, Str_true) THEN ParseOk([t |-> "true"], i + 4)
        ELSE IF StartsWith(s, i, Str_false) THEN ParseOk([t |-> "false"], i + 5)
        ELSE IF StartsWith(s, i, Str_null) THEN ParseOk(JsNull, i + 4)
        ELSE ParseFail)

\* after a member or an element that ends before index n, with more the
\* members or elements so far: the closing bracket, or a comma and the rest
ParseRest(s, n, more, close, Rest(_, _, _)) ==
    IF n > Len(s) THEN ParseFail
    ELSE IF s[n] = close
         THEN ParseOk(IF close = 125 THEN [t |-> "object", m |-> more]
                                     ELSE [t |-> "array", e |-> more], n + 1)
    ELSE IF s[n] = 44 THEN Rest(s, n + 1, more)
    ELSE ParseFail

\* the members of an object from the member at or after index i0
ParseMembers(s, i0, acc) ==
    Bind(SkipWs(s, i0), LAMBDA i :
        IF i > Len(s) \/ s[i] # 34 THEN ParseFail
        ELSE Bind(ParseChars(s, i + 1, <<>>), LAMBDA k :
            IF ~k.ok THEN ParseFail
            ELSE Bind(SkipWs(s, k.i), LAMBDA c :
                IF c > Len(s) \/ s[c] # 58 THEN ParseFail
                ELSE Bind(ParseValue(s, c + 1), LAMBDA v :
                    IF ~v.ok THEN ParseFail
                    ELSE Bind(SkipWs(s, v.i), LAMBDA n :
                        Bind(Append(acc, <<k.v.str, v.v>>), LAMBDA more :
                            ParseRest(s, n, more, 125, ParseMembers)))))))

\* the elements of an array from the element at or after index i0
ParseElements(s, i0, acc) ==
    Bind(ParseValue(s, i0), LAMBDA v :
        IF ~v.ok THEN ParseFail
        ELSE Bind(SkipWs(s, v.i), LAMBDA n :
            Bind(Append(acc, v.v), LAMBDA more :
                ParseRest(s, n, more, 93, ParseElements))))

\* JSON.parse(text): the value, or a SyntaxError is thrown
JSON_parse(text) ==
    Bind(ParseValue(text, 1), LAMBDA r :
        IF r.ok /\ SkipWs(text, r.i) > Len(text)
        THEN [thrown |-> FALSE, v |-> r.v]
        ELSE [thrown |-> TRUE, v |-> Undefined])

\* a number text denotes zero: no digit of its mantissa is other than 0
RECURSIVE IsZeroText(_, _)
IsZeroText(str, i) ==
    IF i > Len(str) \/ str[i] \in {101, 69} THEN TRUE
    ELSE IF str[i] \in 49..57 THEN FALSE
    ELSE IsZeroText(str, i + 1)

\* ToBoolean(v)
Truthy(v) ==
    IF v.t = "string" THEN v.str # <<>>
    ELSE IF v.t = "number" THEN ~IsZeroText(v.str, 1)
    ELSE v.t \in {"true", "object", "array"}

\* data.name for a value data other than null and undefined: the value of
\* the last member of that name of an object, undefined for any other value
\* and any other name (the names read here are own properties of no
\* string, number, boolean or array)
RECURSIVE GetMember(_, _, _)
GetMember(m, name, i) ==
    IF i = 0 THEN Undefined
    ELSE IF m[i][1] = name THEN m[i][2]
    ELSE GetMember(m, name, i - 1)
Get(data, name) == IF data.t = "object" THEN GetMember(data.m, name, Len(data.m)) ELSE Undefined

(***************************************************************************)
(* The analysis data (src/index.tsx 28-39) and populateBananaData           *)
(* (511-523).  lastAnalysisData is null or an AnalysisResult: a record of   *)
(* the eight fields, each undefined or a pair [en, vi] of values.           *)
(***************************************************************************)
AnalysisFields ==
    {"style", "materials", "lighting", "context", "composition",
     "generationPrompt", "sketchPrompt", "multiViewPrompts"}

\* the object {}
EmptyAnalysis == [k \in AnalysisFields |-> Undefined]

\* setField that puts a new pair in place of the field
setField_NewPair(a, key, val) ==
    IF ~Truthy(val) THEN a
    ELSE [a EXCEPT ![key] = [en |-> val, vi |-> JsString(<<>>)]]

\* lines 513-517: setField(key, val) on the analysis data a
setField(a, key, val) ==
    IF ~Truthy(val) THEN a
    ELSE LET b == IF a[key] = Undefined
                  THEN [a EXCEPT ![key] = [en |-> JsString(<<>>), vi |-> JsString(<<>>)]]
                  ELSE a
         IN  [b EXCEPT ![key] = [en |-> val, vi |-> b[key].vi]]

\* lines 518-521: one of the four statements if (data.name) setField(key, data.name)
setFrom(a, data, name, key) ==
    IF Truthy(Get(data, name)) THEN setField(a, key, Get(data, name)) ELSE a

\* populateBananaData(data) with lastAnalysisData = last: the new value of
\* lastAnalysisData, and whether a TypeError is thrown (data.mega with data
\* null, after line 512 has run)
populateBananaData(last, data) ==
    LET a0 == IF last = JsNull THEN EmptyAnalysis ELSE last
    IN  IF data.t \in {"null", "undefined"} THEN [thrown |-> TRUE, last |-> a0]
        ELSE LET a1 == setFrom(a0, data, Str_mega, "generationPrompt")
                 a2 == setFrom(a1, data, Str_lighting, "lighting")
                 a3 == setFrom(a2, data, Str_scene, "context")
                 a4 == setFrom(a3, data, Str_view, "composition")
             IN  [thrown |-> FALSE, last |-> a4]

(***************************************************************************)
(* processBlobForMetadata (525-538): an image is pasted or dropped.         *)
(***************************************************************************)
\* the call on the bytes buffer with lastAnalysisData = last: the boolean
\* returned, the new value of lastAnalysisData, and the argument of
\* populateBananaData when it is called
processBlobForMetadata(buffer, last) ==
    Bind(extractPngMetadata(buffer), LAMBDA metadata :
        IF metadata.kind = "throw" THEN [ret |-> FALSE, last |-> last, data |-> <<>>]
        ELSE IF metadata.kind = "null" \/ metadata.str = <<>>
             THEN [ret |-> FALSE, last |-> last, data |-> <<>>]
        ELSE Bind(JSON_parse(metadata.str), LAMBDA parsed :
            IF parsed.thrown THEN [ret |-> FALSE, last |-> last, data |-> <<>>]
            ELSE Bind(populateBananaData(last, parsed.v), LAMBDA populated :
                [ret |-> ~populated.thrown, last |-> populated.last,
                 data |-> <<parsed.v>>])))

\* {"mega":"a"}
JsonMega == <<123, 34, 109, 101, 103, 97, 34, 58, 34, 97, 34, 125>>
\* {"mega":"m","lighting":"l","scene":"s","view":"v"}
JsonAll ==
    <<123, 34, 109, 101, 103, 97, 34, 58, 34, 109, 34, 44, 34, 108, 105, 103,
      104, 116, 105, 110, 103, 34, 58, 34, 108, 34, 44, 34, 115, 99, 101,
      110, 101, 34, 58, 34, 115, 34, 44, 34, 118, 105, 101, 119, 34, 58, 34,
      118, 34, 125>>
\*  {"view" : "v\u0041\n"} 
JsonSpaced ==
    <<32, 123, 34, 118, 105, 101, 119, 34, 32, 58, 32, 34, 118, 92, 117, 48,
      48, 52, 49, 92, 110, 34, 125, 32>>
\* {"mega":""}
JsonEmptyMega == <<123, 34, 109, 101, 103, 97, 34, 58, 34, 34, 125>>
\* {"mega":1,"scene":0}
JsonNumbers ==
    <<123, 34, 109, 101, 103, 97, 34, 58, 49, 44, 34, 115, 99, 101, 110, 101,
      34, 58, 48, 125>>
\* {"mega":"a","mega":"b"}
JsonTwice ==
    <<123, 34, 109, 101, 103, 97, 34, 58, 34, 97, 34, 44, 34, 109, 101, 103,
      97, 34, 58, 34, 98, 34, 125>>
\* {"lighting":null,"other":[true,{"x":-1.5e2}]}
JsonNested ==
    <<123, 34, 108, 105, 103, 104, 116, 105, 110, 103, 34, 58, 110, 117, 108,
      108, 44, 34, 111, 116, 104, 101, 114, 34, 58, 91, 116, 114, 117, 101,
      44, 123, 34, 120, 34, 58, 45, 49, 46, 53, 101, 50, 125, 93, 125>>
\* null
JsonNull == <<110, 117, 108, 108>>
\* 1
JsonOne == <<49>>
\* "s"
JsonString == <<34, 115, 34>>
\* []
JsonArray == <<91, 93>>
\* {"mega":"a"
JsonCut == <<123, 34, 109, 101, 103, 97, 34, 58, 34, 97, 34>>
\* {"mega":"a"}x
JsonTrailing == <<123, 34, 109, 101, 103, 97, 34, 58, 34, 97, 34, 125, 120>>
\* {'mega':'a'}
JsonSingleQuotes == <<123, 39, 109, 101, 103, 97, 39, 58, 39, 97, 39, 125>>
\* 01
JsonLeadingZero == <<48, 49>>

JsonTexts ==
    { JsonMega, JsonAll, JsonSpaced, JsonEmptyMega, JsonNumbers, JsonTwice,
      JsonNested, JsonNull, JsonOne, JsonString, JsonArray, JsonCut,
      JsonTrailing, JsonSingleQuotes, JsonLeadingZero }

\* the shorter texts, the data of the tEXt chunks that carry one of them
\* under either keyword, and the images with such a chunk
JsonImageTexts ==
    { JsonMega, JsonEmptyMega, JsonNull, JsonOne, JsonString, JsonArray, JsonCut,
      JsonTrailing, JsonSingleQuotes, JsonLeadingZero }
JsonChunkData ==
    { k \o <<0>> \o TextEncode(x) : k \in RecognizedKeys, x \in JsonImageTexts }
JsonImages ==
    { FullSignature \o IHDRChunk \o Chunk(Str_tEXt, d) \o IENDChunk : d \in JsonChunkData }

\* analysis data with a field of both texts, as an analysis of the backend
\* leaves it (line 2290)
SomeAnalysis ==
    [EmptyAnalysis EXCEPT !["lighting"] = [en |-> JsString(<<101>>), vi |-> JsString(<<118>>)],
                          !["style"] = [en |-> JsString(<<115>>), vi |-> JsString(<<116>>)]]

ProcessBlob ==
    /\ loadRes = "none"
    /\ \E r \in {processBlobForMetadata(png, lastAnalysisData)} :
           /\ loadRes' = IF r.ret THEN "true" ELSE "false"
           /\ lastAnalysisData' = r.last
           /\ popLog' = popLog \o r.data
    /\ UNCHANGED codecVars
    /\ UNCHANGED <<walk, retry, view>>

InitLoad ==
    /\ Loaded
    /\ crcIn = <<>>
    /\ png \in Images \cup JsonImages
    /\ walk = NoWalk
    /\ retry = NoRetry
    /\ lastAnalysisData \in {JsNull, SomeAnalysis}
    /\ popLog = <<>>
    /\ loadRes = "none"
    /\ view = NoView

NextLoad == ProcessBlob

SpecLoad == InitLoad /\ [][NextLoad]_vars

(***************************************************************************)
(* populateBananaData called on values of JSON.parse, one call after the    *)
(* other (lines 531, 2674, 2689).                                           *)
(***************************************************************************)
BananaPayloads ==
    { JSON_parse(x).v :
          x \in { JsonMega, JsonAll, JsonSpaced, JsonEmptyMega, JsonNumbers, JsonTwice,
                  JsonNested, JsonNull, JsonOne, JsonString, JsonArray } }

\* populateBananaData(data); a call that throws (data null) has run line 512
Populate(data) ==
    /\ Len(popLog) < MaxPopulates
    /\ \E r \in { populateBananaData(lastAnalysisData, data) } :
           lastAnalysisData' = r.last
    /\ popLog' = Append(popLog, data)
    /\ UNCHANGED codecVars
    /\ UNCHANGED <<walk, retry, loadRes, view>>

InitBanana ==
    /\ Loaded
    /\ crcIn = <<>>
    /\ png = <<>>
    /\ walk = NoWalk
    /\ retry = NoRetry
    /\ lastAnalysisData \in {JsNull, SomeAnalysis}
    /\ popLog = <<>>
    /\ loadRes = "none"
    /\ view = NoView

NextBanana == \E data \in BananaPayloads : Populate(data)

SpecBanana == InitBanana /\ [][NextBanana]_vars

(***************************************************************************)
(* Vocabulary of the properties: the chunk structure of a byte stream as    *)
(* the PNG format defines it, read independently of the codec.              *)
(***************************************************************************)
EncodeCalled == encRes.kind # "none"
DecodeCalled == decRes.kind # "none"
\* the last writePngMetadata call returned an array that differs from its input
Inserted == encRes.kind = "return" /\ encRes.bytes # encIn
\* extractPngMetadata was called on what the last writePngMetadata call returned
DecodedAfterEncode == DecodeCalled /\ encRes.kind = "return"

\* the declared length, the type and the end of the chunk that starts at
\* offset pos (0-based) of p
LengthAt(p, pos) == getUint32(p, pos)
TypeAt(p, pos) == SubSeq(p, pos + 5, pos + 8)
DataAt(p, pos) == SubSeq(p, pos + 9, pos + 8 + LengthAt(p, pos))
EndOf(p, pos) == pos + 8 + LengthAt(p, pos) + 4
\* a whole chunk (header, data and CRC) lies in p at pos
CompleteAt(p, pos) == pos + 8 <= Len(p) /\ EndOf(p, pos) <= Len(p)

HasSignature(p) == Len(p) >= 4 /\ SubSeq(p, 1, 4) = PngSignature

\* p starts with the signature and its first chunk is a complete IHDR chunk
FirstChunkIsIHDR(p) ==
    /\ Len(p) >= 8
    /\ SubSeq(p, 1, 8) = FullSignature
    /\ CompleteAt(p, 8)
    /\ TypeAt(p, 8) = Str_IHDR

\* the end of the first chunk of type IHDR met from pos on, for a stream
\* that has one
RECURSIVE IHDREnd(_, _)
IHDREnd(p, pos) ==
    IF TypeAt(p, pos) = Str_IHDR THEN EndOf(p, pos) ELSE IHDREnd(p, EndOf(p, pos))

\* the keyword bytes (before the first 0) and the text bytes (after it) of
\* tEXt data d that holds a 0
RECURSIVE FirstZero(_, _)
FirstZero(d, i) == IF i > Len(d) THEN 0 ELSE IF d[i] = 0 THEN i ELSE FirstZero(d, i + 1)
KeywordBytes(d) == SubSeq(d, 1, FirstZero(d, 1) - 1)
TextBytes(d) == SubSeq(d, FirstZero(d, 1) + 1, Len(d))
RecognizedBytes == { TextEncode(k) : k \in RecognizedKeys }

\* the chunk at pos is a tEXt chunk whose keyword is one of the two names
RecognizedAt(p, pos) ==
    /\ TypeAt(p, pos) = Str_tEXt
    /\ FirstZero(DataAt(p, pos), 1) > 0
    /\ KeywordBytes(DataAt(p, pos)) \in RecognizedBytes

\* the offset of the first recognized tEXt chunk among the complete chunks
\* from pos on, or -1
RECURSIVE FirstRecognized(_, _)
FirstRecognized(p, pos) ==
    IF ~CompleteAt(p, pos) THEN -1
    ELSE IF RecognizedAt(p, pos) THEN pos
    ELSE FirstRecognized(p, EndOf(p, pos))

\* no chunk header fits at pos, or the chunk declared there runs past the end
TruncatedAt(p, pos) == pos < Len(p) /\ ~CompleteAt(p, pos)

\* the chunks from pos on are complete, none is IHDR, and they end at or
\* within less than a chunk header of the end of the stream
RECURSIVE EndsWithoutIHDR(_, _)
EndsWithoutIHDR(p, pos) ==
    IF pos + 8 > Len(p) THEN TRUE
    ELSE IF TypeAt(p, pos) = Str_IHDR THEN FALSE
    ELSE EndsWithoutIHDR(p, EndOf(p, pos))

\* as EndsWithoutIHDR, and no walk position has only 1 to 3 bytes after it
RECURSIVE EndsCleanlyWithoutIHDR(_, _)
EndsCleanlyWithoutIHDR(p, pos) ==
    IF ~(pos < Len(p)) THEN TRUE
    ELSE IF pos + 4 > Len(p) THEN FALSE
    ELSE IF pos + 8 > Len(p) THEN TRUE
    ELSE IF TypeAt(p, pos) = Str_IHDR THEN FALSE
    ELSE EndsCleanlyWithoutIHDR(p, EndOf(p, pos))

\* p holds neither the first byte of a byte order mark nor the byte FF
PlainBytes(p) == \A i \in 1..Len(p) : p[i] \notin {239, 255}

\* the reader returns the text of the chunk at pos
ReturnedAt(p, pos) == MatchText(TypeAt(p, pos), DataAt(p, pos)).kind = "string"

\* the reader's walk from pos comes to a truncated chunk: the chunks before
\* it are complete and neither end the walk (IEND) nor are returned
RECURSIVE WalkMeetsTruncated(_, _)
WalkMeetsTruncated(p, pos) ==
    IF ~(pos < Len(p)) THEN FALSE
    ELSE IF TruncatedAt(p, pos) THEN TRUE
    ELSE IF ReturnedAt(p, pos) \/ TypeAt(p, pos) = Str_IEND THEN FALSE
    ELSE WalkMeetsTruncated(p, EndOf(p, pos))

\* the reader's walk from pos comes to a complete IEND chunk: the chunks
\* before it are complete and none of them is returned
RECURSIVE WalkMeetsIEND(_, _)
WalkMeetsIEND(p, pos) ==
    IF ~CompleteAt(p, pos) THEN FALSE
    ELSE IF ReturnedAt(p, pos) THEN FALSE
    ELSE IF TypeAt(p, pos) = Str_IEND THEN TRUE
    ELSE WalkMeetsIEND(p, EndOf(p, pos))

\* the end of the first IEND chunk among the complete chunks from pos on,
\* or -1
RECURSIVE FirstIENDEnd(_, _)
FirstIENDEnd(p, pos) ==
    IF ~CompleteAt(p, pos) THEN -1
    ELSE IF TypeAt(p, pos) = Str_IEND THEN EndOf(p, pos)
    ELSE FirstIENDEnd(p, EndOf(p, pos))

\* crc32 has been called
ChecksumCalled == crcLog # <<>>

(***************************************************************************)
(* The reference CRC-32 of ISO 3309 and the PNG specification, computed a   *)
(* bit at a time on registers held as sequences of 32 bits, least           *)
(* significant bit first.                                                   *)
(***************************************************************************)
\* the exponents below 32 of the generator polynomial x^32 + x^26 + ... + 1
RefExponents == {26, 23, 22, 16, 12, 11, 10, 8, 7, 5, 4, 2, 1, 0}

\* the reflected polynomial: the coefficient of x^e is bit 31 - e
RECURSIVE RefPolyFrom(_)
RefPolyFrom(i) ==
    IF i > 32 THEN <<>>
    ELSE <<IF (32 - i) \in RefExponents THEN 1 ELSE 0>> \o RefPolyFrom(i + 1)
RefPoly == RefPolyFrom(1)

\* the n low bits of x
RECURSIVE BitsOf(_, _)
BitsOf(x, n) == IF n = 0 THEN <<>> ELSE <<x % 2>> \o BitsOf(x \div 2, n - 1)

\* the bits of a word
BitsOfWord(w) == BitsOf(w[4], 8) \o BitsOf(w[3], 8) \o BitsOf(w[2], 8) \o BitsOf(w[1], 8)

RefOnes == BitsOfWord(<<255, 255, 255, 255>>)

RECURSIVE RefXor(_, _)
RefXor(a, b) ==
    IF a = <<>> THEN <<>>
    ELSE <<(a[1] + b[1]) % 2>> \o RefXor(Tail(a), Tail(b))

\* k reduction steps: shift right, and subtract the polynomial when the bit
\* shifted out is 1
RECURSIVE RefReduce(_, _)
RefReduce(r, k) ==
    IF k = 0 THEN r
    ELSE CHOOSE q \in { RefReduce(t, k - 1) :
                          t \in { IF r[1] = 1 THEN RefXor(Tail(r) \o <<0>>, RefPoly)
                                  ELSE Tail(r) \o <<0>> } } : TRUE

RECURSIVE RefCrcFrom(_, _, _)
RefCrcFrom(b, i, r) ==
    IF i > Len(b) THEN r
    ELSE CHOOSE q \in { RefCrcFrom(b, i + 1, t) :
                          t \in { RefReduce(RefXor(r, BitsOf(b[i], 32)), 8) } } : TRUE

\* initial register all ones, final complement
RefCrc32(b) == RefXor(RefCrcFrom(b, 1, RefOnes), RefOnes)

\* the well-formed tEXt chunk that holds value under key
TextChunk(key, value) == Chunk(Str_tEXt, TextEncode(key) \o <<0>> \o TextEncode(value))

\* writePngMetadata was called twice, with the two recognized keywords in
\* either order
TwoKeywordsWritten ==
    /\ Len(calls) = 2
    /\ {calls[1].key, calls[2].key} = RecognizedKeys

\* the text the reader makes of the chunk at pos
PayloadAt(p, pos) == MatchText(TypeAt(p, pos), DataAt(p, pos))

\* the chunks from pos on are complete up to and including a chunk of type
\* IHDR
RECURSIVE WalkFindsIHDR(_, _)
WalkFindsIHDR(p, pos) ==
    IF ~CompleteAt(p, pos) THEN FALSE
    ELSE IF TypeAt(p, pos) = Str_IHDR THEN TRUE
    ELSE WalkFindsIHDR(p, EndOf(p, pos))

\* p is an input into which a chunk is inserted: it has the signature and
\* an IHDR chunk to insert after
HasAnchor(p) == HasSignature(p) /\ WalkFindsIHDR(p, 8)

\* the length of the data of the chunk written for key and value
DataLength(key, value) == Len(TextEncode(key)) + 1 + Len(TextEncode(value))

\* the CRC field of the complete chunk at pos is the CRC-32 of its type and
\* data
CrcOkAt(p, pos) ==
    SubSeq(p, EndOf(p, pos) - 3, EndOf(p, pos))
        = Uint32Bytes(crc32(TypeAt(p, pos) \o DataAt(p, pos)))

\* p with the four bytes of the CRC field of every complete chunk from pos
\* on set to x
RECURSIVE WithCrcs(_, _, _)
WithCrcs(p, pos, x) ==
    IF ~CompleteAt(p, pos) THEN p
    ELSE LET e == EndOf(p, pos)
         IN  WithCrcs(SubSeq(p, 1, e - 4) \o <<x, x, x, x>> \o SubSeq(p, e + 1, Len(p)), e, x)

\* the offset of the first chunk of type IHDR met from pos on, for a stream
\* that has one
RECURSIVE IHDRStart(_, _)
IHDRStart(p, pos) ==
    IF TypeAt(p, pos) = Str_IHDR THEN pos ELSE IHDRStart(p, EndOf(p, pos))

(***************************************************************************)
(* Properties.                                                              *)
(***************************************************************************)

\* C1: round trip.  When the image given to writePngMetadata starts with
\* the signature and its first chunk is a complete IHDR chunk, and the key is
\* "parameters" or "BananaProData", extractPngMetadata of the result returns
\* exactly the value that was written.
C1_RoundTrip ==
    (DecodedAfterEncode /\ FirstChunkIsIHDR(encIn) /\ encKey \in RecognizedKeys)
        => decRes = String(encVal)

\* C1, for values that do not start with U+FEFF: the round trip is exact.
C1_RoundTripNoLeadingBom ==
    (DecodedAfterEncode /\ FirstChunkIsIHDR(encIn) /\ encKey \in RecognizedKeys
        /\ (encVal = <<>> \/ Head(encVal) # 65279))
        => decRes = String(encVal)

\* C2: non-corruption.  Whenever writePngMetadata inserts a chunk, its
\* output is the input up to the end ip of the IHDR chunk, one new tEXt
\* chunk, and the input from ip on, byte for byte.
C2_NonCorruption ==
    Inserted =>
        LET out == encRes.bytes
            ip == IHDREnd(encIn, 8)
            n == Len(out) - Len(encIn)
        IN  /\ n >= 12
            /\ ip <= Len(encIn)
            /\ SubSeq(out, 1, ip) = SubSeq(encIn, 1, ip)
            /\ SubSeq(out, ip + n + 1, Len(out)) = SubSeq(encIn, ip + 1, Len(encIn))
            /\ TypeAt(out, ip) = Str_tEXt
            /\ EndOf(out, ip) = ip + n

\* C2 witness: a chunk was inserted into an image with chunks after IHDR.
C2_Witness == Inserted /\ IHDREnd(encIn, 8) < Len(encIn)

\* C3: the chunk writePngMetadata builds for (key, value) is well formed:
\* big-endian length of the data, the type "tEXt", the data
\* UTF-8(key) 0x00 UTF-8(value), and the big-endian unsigned checksum of type
\* and data.
C3_ChunkWellFormed ==
    Inserted =>
        LET ip == IHDREnd(encIn, 8)
            n == Len(encRes.bytes) - Len(encIn)
            c == SubSeq(encRes.bytes, ip + 1, ip + n)
            data == TextEncode(encKey) \o <<0>> \o TextEncode(encVal)
        IN  /\ n = 12 + Len(data)
            /\ SubSeq(c, 1, 4) = Uint32Bytes(Len(data))
            /\ SubSeq(c, 5, 8) = Str_tEXt
            /\ SubSeq(c, 9, n - 4) = data
            /\ SubSeq(c, n - 3, n) = Uint32Bytes(crc32(Str_tEXt \o data))

\* C3 witness: a chunk with a non-empty value was inserted, and its checksum
\* is one that crc32 returns as a negative number.
C3_Witness ==
    /\ Inserted
    /\ encVal # <<>>
    /\ crc32(Str_tEXt \o TextEncode(encKey) \o <<0>> \o TextEncode(encVal)) < 0

\* C4: neither writePngMetadata nor extractPngMetadata ever raises, whatever
\* the bytes given.
C4_NeverRaises == encRes.kind # "throw" /\ decRes.kind # "throw"

\* C5: when the input has the signature and the chunk walk from offset 8
\* comes to the end of the stream without meeting an IHDR chunk,
\* writePngMetadata returns the input bytes unchanged and does not raise.
C5_MissingAnchorNoOp ==
    (EncodeCalled /\ HasSignature(encIn) /\ EndsWithoutIHDR(encIn, 8))
        => (encRes.kind = "return" /\ encRes.bytes = encIn)

\* C5, for walks that never stop with 1 to 3 bytes left: the input is
\* returned unchanged.
C5_NoOpWhenWalkEndsCleanly ==
    (EncodeCalled /\ HasSignature(encIn) /\ EndsCleanlyWithoutIHDR(encIn, 8))
        => (encRes.kind = "return" /\ encRes.bytes = encIn)

\* C6: when the first four bytes of the input are not 137, 80, 78, 71 (the
\* input may be shorter than four bytes), writePngMetadata returns the input
\* bytes unchanged, whatever the key, the value and the rest of the input.
C6_BadSignatureNoOp ==
    (EncodeCalled /\ ~HasSignature(encIn))
        => (encRes.kind = "return" /\ encRes.bytes = encIn)

\* C6 witness: writePngMetadata was called on exactly four bytes that are
\* not the signature.
C6_Witness == EncodeCalled /\ Len(encIn) = 4 /\ ~HasSignature(encIn)

\* C7: what extractPngMetadata returns is the text of the first chunk in
\* stream order that is a tEXt chunk with keyword bytes "parameters" or
\* "BananaProData", and it is every byte after the first 0x00, verbatim.
C7_FirstRecognizedPayload ==
    (DecodeCalled /\ decRes.kind = "string") =>
        /\ HasSignature(png)
        /\ FirstRecognized(png, 8) >= 0
        /\ TextEncode(decRes.str) = TextBytes(DataAt(png, FirstRecognized(png, 8)))

\* C7, for streams without a byte order mark and without the byte FF: the
\* text returned is that of the first recognized chunk, verbatim.
C7_PlainStreams ==
    (DecodeCalled /\ decRes.kind = "string" /\ PlainBytes(png)) =>
        /\ HasSignature(png)
        /\ FirstRecognized(png, 8) >= 0
        /\ TextEncode(decRes.str) = TextBytes(DataAt(png, FirstRecognized(png, 8)))

\* C8: extractPngMetadata returns null for a stream with the signature in
\* which no chunk is a tEXt chunk with keyword "parameters" or
\* "BananaProData".
C8_AbsenceSignal ==
    (DecodeCalled /\ HasSignature(png) /\ FirstRecognized(png, 8) = -1)
        => decRes = Null

\* C8, for streams without a byte order mark: null is returned.
C8_PlainStreams ==
    (DecodeCalled /\ HasSignature(png) /\ FirstRecognized(png, 8) = -1
        /\ PlainBytes(png))
        => decRes = Null

\* C9: when the reader's walk comes to an offset where the chunk header, or
\* the declared length plus the CRC, runs past the end of the buffer,
\* extractPngMetadata returns null: it neither raises on a read outside the
\* buffer nor returns a chunk lying after it.
C9_TruncatedStops ==
    (DecodeCalled /\ HasSignature(png) /\ WalkMeetsTruncated(png, 8))
        => decRes = Null

\* C9 witness: the decoded stream has a truncated chunk header followed by a
\* chunk with keyword "parameters".
C9_Witness == DecodeCalled /\ png = FullSignature \o OverrunHeader \o TextParameters

\* C10: for a buffer of at least four bytes whose first four bytes are not
\* 0x89504E47, extractPngMetadata returns null, whatever follows.
C10_BadSignatureAbsent ==
    (DecodeCalled /\ Len(png) >= 4 /\ SubSeq(png, 1, 4) # PngSignature)
        => decRes = Null

\* C10 witness: a buffer with a damaged signature that holds a complete tEXt
\* chunk with keyword "parameters" was decoded.
C10_Witness ==
    /\ DecodeCalled
    /\ Len(png) > 8
    /\ ~HasSignature(png)
    /\ FirstRecognized(png, 8) >= 0

\* C11: extractPngMetadata stops at IEND.  The walk goes from chunk to chunk
\* by 8 + length + 4 bytes and ends at the first chunk of type IEND: when it
\* comes to IEND with nothing returned before, the result is null, and in
\* every case the result is that of the stream cut right after its first
\* IEND chunk, so that no chunk lying after IEND is ever returned.
C11_StopsAtIEND ==
    (DecodeCalled /\ HasSignature(png)) =>
        /\ WalkMeetsIEND(png, 8) => decRes = Null
        /\ FirstIENDEnd(png, 8) >= 0 =>
               decRes = extractPngMetadata(SubSeq(png, 1, FirstIENDEnd(png, 8)))

\* C11 witness: the decoded stream holds a chunk with keyword "parameters"
\* right after an IEND chunk.
C11_Witness == DecodeCalled /\ png = FullSignature \o IENDChunk \o TextParameters

\* C12: crc32 agrees with the standard CRC-32 of PNG.  For every byte
\* sequence given to it, the number crc32 returns, reduced modulo 2^32, is
\* the bit-at-a-time reference CRC-32 of the bytes, and the table entry of
\* every index is 8 reduction steps applied to the index.
C12_MatchesReference ==
    /\ ChecksumCalled => BitsOfWord(Uint32Bytes(crcOut)) = RefCrc32(crcIn)
    /\ Len(crcIn) = 1 =>
           BitsOfWord(crcTable[crcIn[1] + 1]) = RefReduce(BitsOf(crcIn[1], 32), 8)

\* C12 witness: crc32 was called on "123456789" and returned the number whose
\* 32-bit pattern is CB F4 39 26.
C12_Witness ==
    ChecksumCalled /\ crcIn = Str_Check /\ Uint32Bytes(crcOut) = <<203, 244, 57, 38>>

\* C13: the number crc32 returns is an unsigned 32-bit value: it lies in
\* 0 .. 2^32 - 1.  (A number crc32 returns is the result of ^, which lies in
\* -2^31 .. 2^31 - 1, so only the lower limit can fail.)
C13_Unsigned == ChecksumCalled => crcOut >= 0

\* C14: crc32 is deterministic and defined on the empty sequence.  Two calls
\* with the same bytes return the same number, whatever calls of crc32,
\* writePngMetadata or extractPngMetadata are made in between; every number
\* returned is the one crc32 gives for the same bytes now; and crc32 of the
\* empty sequence is 0.
C14_Deterministic ==
    \A i \in 1..Len(crcLog) :
        /\ \A j \in 1..Len(crcLog) : crcLog[i][1] = crcLog[j][1] => crcLog[i][2] = crcLog[j][2]
        /\ crcLog[i][2] = crc32(crcLog[i][1])
        /\ crcLog[i][1] = <<>> => crcLog[i][2] = 0

\* C14 witness: crc32 was called twice on the empty sequence, with a
\* writePngMetadata call that inserted a chunk in between.
C14_Witness ==
    /\ Len(crcLog) = 2
    /\ crcLog[1][1] = <<>>
    /\ crcLog[2][1] = <<>>
    /\ op = "crc32"
    /\ Inserted

\* C15: two writePngMetadata calls in sequence on a base image whose first
\* chunk is IHDR, one with "parameters" and one with "BananaProData", give an
\* output that is the base with both tEXt chunks after IHDR, the later one
\* first, each byte for byte as written, and the reader makes of each of the
\* two chunks exactly the value written under its keyword.
C15_TwoKeywordsCoexist ==
    TwoKeywordsWritten =>
        LET base == calls[1].in
            ip == EndOf(base, 8)
            c1 == TextChunk(calls[1].key, calls[1].value)
            c2 == TextChunk(calls[2].key, calls[2].value)
        IN  /\ png = SubSeq(base, 1, ip) \o c2 \o c1 \o SubSeq(base, ip + 1, Len(base))
            /\ PayloadAt(png, ip) = String(calls[2].value)
            /\ PayloadAt(png, ip + Len(c2)) = String(calls[1].value)

\* C15, for values that do not start with U+FEFF: both chunks are in the
\* output as written and each gives back its value.
C15_NoLeadingBom ==
    (TwoKeywordsWritten /\ \A i \in 1..2 : calls[i].value = <<>> \/ Head(calls[i].value) # 65279) =>
        LET base == calls[1].in
            ip == EndOf(base, 8)
            c1 == TextChunk(calls[1].key, calls[1].value)
            c2 == TextChunk(calls[2].key, calls[2].value)
        IN  /\ png = SubSeq(base, 1, ip) \o c2 \o c1 \o SubSeq(base, ip + 1, Len(base))
            /\ PayloadAt(png, ip) = String(calls[2].value)
            /\ PayloadAt(png, ip + Len(c2)) = String(calls[1].value)

\* C15: both chunks are in the output byte for byte, whatever the values.
C15_BothChunksIntact ==
    TwoKeywordsWritten =>
        LET base == calls[1].in
            ip == EndOf(base, 8)
            c1 == TextChunk(calls[1].key, calls[1].value)
            c2 == TextChunk(calls[2].key, calls[2].value)
        IN  png = SubSeq(base, 1, ip) \o c2 \o c1 \o SubSeq(base, ip + 1, Len(base))

\* C16: output length.  When writePngMetadata inserts a chunk (the input has
\* the signature and an IHDR chunk), the output has the length of the input
\* plus 12 plus the length of UTF-8(key) 0x00 UTF-8(value); in every other
\* case the output has the length of the input.
C16_OutputLength ==
    EncodeCalled =>
        /\ encRes.kind = "return"
        /\ Len(encRes.bytes) =
               IF HasAnchor(encIn)
               THEN Len(encIn) + 12 + DataLength(encKey, encVal)
               ELSE Len(encIn)

\* C16, for the calls that return: the output has the length stated.
C16_LengthWhenReturned ==
    (EncodeCalled /\ encRes.kind = "return") =>
        Len(encRes.bytes) =
            IF HasAnchor(encIn)
            THEN Len(encIn) + 12 + DataLength(encKey, encVal)
            ELSE Len(encIn)

C18_FreshOutput == encRes.kind = "return" => ~encRes.alias

\* C18, on the path that inserts a chunk: the array returned is new.
C18_FreshWhenInserted == (encRes.kind = "return" /\ HasAnchor(encIn)) => ~encRes.alias

\* C18: on both paths that insert nothing, the array returned is the
\* argument.
C18_NoOpReturnsArgument == (encRes.kind = "return" /\ ~HasAnchor(encIn)) => encRes.alias

\* C19: extractPngMetadata does not verify CRCs.  A buffer and the buffers
\* that differ from it only in the CRC fields of its chunks give the same
\* result, so a recognized tEXt chunk is returned also when its CRC is wrong.
C19_NoCrcVerification ==
    DecodeCalled =>
        /\ \A x \in {0, 255} : decRes = extractPngMetadata(WithCrcs(png, 8, x))
        /\ (HasSignature(png) /\ CompleteAt(png, 8) /\ RecognizedAt(png, 8))
               => decRes.kind = "string"

\* C19 witness: the text of a "BananaProData" chunk whose CRC field is wrong
\* was returned.
C19_Witness ==
    /\ DecodeCalled
    /\ HasSignature(png)
    /\ FirstRecognized(png, 8) >= 0
    /\ ~CrcOkAt(png, FirstRecognized(png, 8))
    /\ decRes = String(<<123, 125>>)

\* C20: insertion anchor.  writePngMetadata walks the chunks from offset 8 by
\* their declared lengths and types, without looking at their CRCs, and
\* inserts the new chunk at the end (offset + 8 + length + 4) of the first
\* chunk of type IHDR, and nowhere else; when the first chunk of the input is
\* IHDR, the new chunk is the second chunk of the output.
C20_InsertionAnchor ==
    EncodeCalled =>
        LET ip == IHDREnd(encIn, 8)
            out == encRes.bytes
        IN  /\ HasAnchor(encIn) =>
                   /\ encRes.kind = "return"
                   /\ out = SubSeq(encIn, 1, ip) \o TextChunk(encKey, encVal)
                                \o SubSeq(encIn, ip + 1, Len(encIn))
            /\ Inserted => HasAnchor(encIn)
            /\ FirstChunkIsIHDR(encIn) =>
                   /\ SubSeq(out, 1, EndOf(encIn, 8)) = SubSeq(encIn, 1, EndOf(encIn, 8))
                   /\ CompleteAt(out, EndOf(out, 8))
                   /\ TypeAt(out, EndOf(out, 8)) = Str_tEXt
                   /\ DataAt(out, EndOf(out, 8)) = TextEncode(encKey) \o <<0>> \o TextEncode(encVal)

\* C20 witness: a chunk was inserted after an IHDR chunk whose CRC is wrong
\* and which is not the first chunk of the input.
C20_Witness ==
    /\ Inserted
    /\ ~FirstChunkIsIHDR(encIn)
    /\ ~CrcOkAt(encIn, IHDRStart(encIn, 8))

\* C21: load path.  Whenever extractPngMetadata returns a payload for the
\* image, processBlobForMetadata populates the analysis data from it and
\* returns true; it returns false only when extractPngMetadata returned
\* null.
C21_PayloadLoads ==
    loadRes # "none" =>
        LET metadata == extractPngMetadata(png)
        IN  /\ metadata.kind = "string" => (loadRes = "true" /\ Len(popLog) = 1)
            /\ loadRes = "false" => metadata.kind = "null"

\* What processBlobForMetadata does do: it returns true exactly when the
\* payload is a non-empty text that JSON.parse accepts and whose value is
\* not null, and it calls populateBananaData exactly when JSON.parse
\* accepts the text.
C21_LoadsParsedPayloads ==
    loadRes # "none" =>
        LET metadata == extractPngMetadata(png)
            usable == metadata.kind = "string" /\ metadata.str # <<>>
                          /\ ~JSON_parse(metadata.str).thrown
        IN  /\ loadRes = "true" <=> (usable /\ JSON_parse(metadata.str).v # JsNull)
            /\ Len(popLog) = (IF usable THEN 1 ELSE 0)

\* the chunks of the first n calls of cs, the chunk of the last call first
RECURSIVE Stacked(_, _)
Stacked(cs, n) ==
    IF n = 0 THEN <<>> ELSE TextChunk(cs[n].key, cs[n].value) \o Stacked(cs, n - 1)

\* the most recent of the first n calls of cs with a recognized keyword, 0
\* if there is none
RECURSIVE LastRecognized(_, _)
LastRecognized(cs, n) ==
    IF n = 0 THEN 0
    ELSE IF cs[n].key \in RecognizedKeys THEN n
    ELSE LastRecognized(cs, n - 1)

\* extractPngMetadata was called on the image at hand, after the last
\* writePngMetadata call
DecodedStack == op = "decode" /\ Len(calls) >= 1

\* C22: stacked encodes are last in, first out.  After n >= 1 successful
\* calls of writePngMetadata on an image whose first chunk is IHDR, the n
\* inserted tEXt chunks lie between IHDR and the original second chunk, the
\* chunk of the last call first, and extractPngMetadata of the result
\* returns the value of the most recent call with a recognized keyword.
C22_StackedLifo ==
    Len(calls) >= 1 =>
        LET base == calls[1].in
            ip == EndOf(base, 8)
            r == LastRecognized(calls, Len(calls))
        IN  /\ png = SubSeq(base, 1, ip) \o Stacked(calls, Len(calls))
                         \o SubSeq(base, ip + 1, Len(base))
            /\ (DecodedStack /\ r > 0) => decRes = String(calls[r].value)

\* The order of the chunks is as C22 says.
C22_ReverseOrder ==
    Len(calls) >= 1 =>
        LET base == calls[1].in
            ip == EndOf(base, 8)
        IN  png = SubSeq(base, 1, ip) \o Stacked(calls, Len(calls))
                      \o SubSeq(base, ip + 1, Len(base))

\* The value read is the one of the most recent recognized call when it
\* does not start with U+FEFF.
C22_LifoNoLeadingBom ==
    (DecodedStack /\ LastRecognized(calls, Len(calls)) > 0) =>
        LET v == calls[LastRecognized(calls, Len(calls))].value
        IN  (v = <<>> \/ Head(v) # 65279) => decRes = String(v)

\* the keyword the reader makes of a chunk written under key: the text of
\* the bytes of key before their first 0
KeywordRead(key) ==
    LET d == TextEncode(key) \o <<0>>
    IN  TextDecode(SubSeq(d, 1, NullIndex(d, 0)))

\* C23: unrecognized keys stay invisible.  For every image on which
\* extractPngMetadata returns null and every key other than "parameters" and
\* "BananaProData", keys that hold a 0 included, extractPngMetadata of what
\* writePngMetadata returns for the image and the key is null as well.
C23_UnrecognizedInvisible ==
    (DecodedAfterEncode /\ encKey \notin RecognizedKeys
         /\ extractPngMetadata(encIn) = Null) =>
        decRes = Null

\* It holds for the keys of which the reader makes no recognized keyword.
C23_InvisibleWhenReadUnrecognized ==
    (DecodedAfterEncode /\ KeywordRead(encKey) \notin RecognizedKeys
         /\ extractPngMetadata(encIn) = Null) =>
        decRes = Null

\* the reader's walk over p from pos comes to the chunk at target: the
\* chunks before it are complete, none is IEND and none is returned
RECURSIVE ReaderPasses(_, _, _)
ReaderPasses(p, pos, target) ==
    IF pos = target THEN TRUE
    ELSE IF pos > target \/ ~CompleteAt(p, pos) THEN FALSE
    ELSE IF TypeAt(p, pos) = Str_IEND \/ ReturnedAt(p, pos) THEN FALSE
    ELSE ReaderPasses(p, EndOf(p, pos), target)

\* C24: encoder/decoder agreement.  For every input and recognized keyword,
\* whenever writePngMetadata inserts a chunk (its output differs from its
\* input), extractPngMetadata of the output returns the value written.
C24_EncoderDecoderAgree ==
    (DecodedAfterEncode /\ Inserted /\ encKey \in RecognizedKeys) =>
        decRes = String(encVal)

\* The two agree when the reader's walk comes to the IHDR chunk the writer
\* inserted after, for values that do not start with U+FEFF.
C24_AgreeWhenAnchorReached ==
    (DecodedAfterEncode /\ Inserted /\ encKey \in RecognizedKeys
         /\ ReaderPasses(encIn, 8, IHDRStart(encIn, 8))
         /\ (encVal = <<>> \/ Head(encVal) # 65279)) =>
        decRes = String(encVal)

\* a chunk was inserted after an IHDR chunk that is not the first chunk
C24_AnchorNotFirst ==
    /\ DecodedAfterEncode /\ Inserted /\ encKey \in RecognizedKeys
    /\ IHDRStart(encIn, 8) > 8
    /\ ReaderPasses(encIn, 8, IHDRStart(encIn, 8))

\* ceil((len - 8) / 12), with 0 for a stream shorter than the signature
MaxIterations(len) == IF len <= 8 THEN 0 ELSE (len - 8 + 11) \div 12

\* the walk stepped through leaves its loop the way the function does
WalkAgrees ==
    (walk.fn # "none" /\ walk.pc = "done") =>
        IF walk.fn = "extract" THEN walk.out = extractPngMetadata(png).kind
        ELSE LET r == writePngMetadata(Uint8Array(png), Str_parameters, <<>>)
             IN  CASE walk.out = "throw" -> r.kind = "throw"
                   [] walk.out = "return" -> r = Returned(png, TRUE)
                   [] walk.out = "insert" -> r.kind = "throw" \/ (r.kind = "return" /\ ~r.alias)
                   [] OTHER -> FALSE

\* C25: both chunk walks terminate.  An iteration of the loop of
\* writePngMetadata or of extractPngMetadata after which the loop goes on
\* advances the offset by at least 12; the loop begins at most
\* ceil((len - 8) / 12) iterations on a stream of len bytes; and a loop that
\* runs is left in the end.
C25_WalksTerminate ==
    /\ [](walk.iter <= MaxIterations(Len(png)))
    /\ [][(walk.pc = "loop" /\ walk'.pc = "loop") => walk'.pos >= walk.pos + 12]_vars
    /\ (walk.pc = "loop") ~> (walk.pc = "done")

\* a loop that ran for two iterations or more has been left
C25_Witness == walk.pc = "done" /\ walk.iter >= 2 /\ walk.pos >= 32

\* writePngMetadata was called on a view that begins at a non-zero offset of
\* its buffer
ViewCalled == EncodeCalled /\ view.byteOffset > 0

\* C26: view independence.  writePngMetadata on a view that begins at a
\* non-zero offset of a larger buffer returns what it returns on a
\* standalone copy of the bytes of the view.
C26_ViewIndependence ==
    ViewCalled => encRes = writePngMetadata(Uint8Array(encIn), encKey, encVal)

\* The same holds for a view whose bytes do not begin with the first four
\* bytes of the signature: the length of no chunk is read.
C26_SameWithoutSignature ==
    (ViewCalled /\ BadSignature(view)) =>
        encRes = writePngMetadata(Uint8Array(encIn), encKey, encVal)

\* the number of backend calls made
BackendCalls == Len(retry.outcomes) + (IF retry.pc = "backend" THEN 1 ELSE 0)
\* the outcome of the last backend call that has completed
LastOutcome == retry.outcomes[Len(retry.outcomes)]

\* C27: bounded retry.  With the default arguments generateContentWithRetry
\* calls the backend at most 4 times, waits 1000 ms, 2000 ms and 4000 ms
\* before the 2nd, 3rd and 4th call, makes no call after the first response
\* and returns that response, and in the end returns or raises.
C27_BoundedRetry ==
    /\ [](retry.pc # "idle" =>
            /\ BackendCalls <= 4
            /\ retry.waits = SubSeq(<<1000, 2000, 4000>>, 1, BackendCalls - 1)
            /\ \A i \in 1..(Len(retry.outcomes) - 1) : ~retry.outcomes[i].ok
            /\ (Len(retry.outcomes) > 0 /\ LastOutcome.ok) =>
                   (retry.pc = "returned" /\ retry.result = LastOutcome.v)
            /\ retry.pc = "returned" => (Len(retry.outcomes) > 0 /\ LastOutcome.ok))
    /\ (retry.pc # "idle") ~> (retry.pc \in {"returned", "raised"})

\* the 4th backend call gave the response that was returned
C27_Witness ==
    /\ retry.pc = "returned"
    /\ Len(retry.outcomes) = 4
    /\ retry.waits = <<1000, 2000, 4000>>

\* the error text of the claims: what can be made of the three parts of
\* line 859, the empty text for null and undefined
ErrorText(e) ==
    IF e.t \in {"null", "undefined"} THEN <<>>
    ELSE IF e.json.kind = "throw" THEN e.str \o e.message
    ELSE EStr(e)

\* the last backend call was rejected and no further one has been made
Rejected == retry.pc # "backend" /\ Len(retry.outcomes) > 0 /\ ~LastOutcome.ok

\* C28: retry filter.  generateContentWithRetry retries only when the error
\* text contains "429", "RESOURCE_EXHAUSTED", "503" or "overloaded"; any
\* other error is raised to the caller at once, with no delay and no further
\* backend call; and when the retries are used up the error raised is the
\* one of the last attempt.
C28_RetryFilter ==
    /\ retry.pc = "timer" => Retryable(ErrorText(LastOutcome.v))
    /\ (Rejected /\ ~Retryable(ErrorText(LastOutcome.v))) =>
           (retry.pc = "raised" /\ retry.raised = LastOutcome.v)
    /\ (Rejected /\ retry.retries = 0) =>
           (retry.pc = "raised" /\ retry.raised = LastOutcome.v)

\* The filter is as C28 says for the errors of which line 859 can make the
\* text; for the others a TypeError is raised at once while retries are
\* left.
C28_FilterWhenTextIsMade ==
    /\ retry.pc = "timer" => Retryable(ErrorText(LastOutcome.v))
    /\ (Rejected /\ ~EStrThrows(LastOutcome.v) /\ ~Retryable(ErrorText(LastOutcome.v))) =>
           (retry.pc = "raised" /\ retry.raised = LastOutcome.v)
    /\ (Rejected /\ retry.retries = 0) =>
           (retry.pc = "raised" /\ retry.raised = LastOutcome.v)
    /\ (Rejected /\ EStrThrows(LastOutcome.v) /\ retry.retries > 0) =>
           (retry.pc = "raised" /\ retry.raised = TypeErrorValue)

\* the four fields populateBananaData writes and the property of the payload
\* each is written from
BananaFields == {"generationPrompt", "lighting", "context", "composition"}
SourceOf(key) ==
    CASE key = "generationPrompt" -> Str_mega
      [] key = "lighting" -> Str_lighting
      [] key = "context" -> Str_scene
      [] key = "composition" -> Str_view

\* what the payload data supplies under name: undefined when it is omitted
Supplied(data, name) ==
    IF data.t \in {"null", "undefined"} THEN Undefined ELSE Get(data, name)

\* the most recent of the first n calls of log whose payload supplies a
\* non-empty (truthy) value under name, 0 if there is none
RECURSIVE LastSupplied(_, _, _)
LastSupplied(log, n, name) ==
    IF n = 0 THEN 0
    ELSE IF Truthy(Supplied(log[n], name)) THEN n
    ELSE LastSupplied(log, n - 1, name)

\* the field key of the analysis data a, and its text in a language as the
\* page shows it (lines 989-996): "" when there is none
FieldOf(a, key) == IF a = JsNull THEN Undefined ELSE a[key]
TextOf(a, key, lang) ==
    IF FieldOf(a, key) = Undefined THEN JsString(<<>>)
    ELSE IF Truthy(FieldOf(a, key)[lang]) THEN FieldOf(a, key)[lang]
    ELSE JsString(<<>>)

\* C29: populateBananaData only adds information.  After any sequence of
\* calls each of generationPrompt, lighting, context and composition holds
\* as its English text the most recent non-empty value supplied for it
\* (under mega, lighting, scene and view); a call whose payload omits a
\* field or gives it an empty value leaves the field unchanged; and no call
\* changes the Vietnamese text of a field or any other field.
C29_OnlyAdds ==
    /\ [](\A key \in BananaFields :
             LET i == LastSupplied(popLog, Len(popLog), SourceOf(key))
             IN  i > 0 => /\ FieldOf(lastAnalysisData, key) # Undefined
                          /\ FieldOf(lastAnalysisData, key).en
                                 = Supplied(popLog[i], SourceOf(key)))
    /\ [][Len(popLog') = Len(popLog) + 1 =>
            LET data == popLog'[Len(popLog')]
            IN  /\ \A key \in BananaFields :
                       ~Truthy(Supplied(data, SourceOf(key))) =>
                           FieldOf(lastAnalysisData', key) = FieldOf(lastAnalysisData, key)
                /\ \A key \in AnalysisFields :
                       TextOf(lastAnalysisData', key, "vi")
                           = TextOf(lastAnalysisData, key, "vi")
                /\ \A key \in AnalysisFields \ BananaFields :
                       FieldOf(lastAnalysisData', key) = FieldOf(lastAnalysisData, key)]_vars

\* two calls on analysis data with both texts of lighting: the first supplies
\* lighting, the second does not, and the Vietnamese text is still there
C29_Witness ==
    /\ Len(popLog) = 2
    /\ LastSupplied(popLog, 2, Str_lighting) = 1
    /\ TextOf(lastAnalysisData, "lighting", "vi") = JsString(<<118>>)
    /\ TextOf(lastAnalysisData, "lighting", "en") = Supplied(popLog[1], Str_lighting)

====
